---- MODULE Spec2Model ----
(***************************************************************************)
(* Streaming aggregation of the FlyWire connections table:                 *)
(*   summarize_data.py     (IPC scan -> histograms, id sets, quantiles)    *)
(*   aggregate.py          (IPC scan -> dominant columns -> Parquet)       *)
(*   summarize_parquet.py  (dataset scan -> histograms)                    *)
(*                                                                         *)
(* Conventions.  A nullable value is a sequence of length <= 1: <<>> is    *)
(* null and <<v>> is the value v.  A Python/Polars string that the code    *)
(* joins, splits or strips is a sequence of one-character strings.  A dict *)
(* is a function whose DOMAIN is the set of keys present.                  *)
(***************************************************************************)
EXTENDS Integers, Sequences, FiniteSets, TLC

VARIABLES
    prog,                  \* which script runs: "sd", "agg", "sp", or a function under test
    pc,                    \* position in main(): "start", "loop", "body", "after",
                           \* "end", or "raised" once an exception has left it
    path_exists,           \* whether the input path names a file
    schema,                \* the columns of the source
    src,                   \* the record batches of the opened source, in file order
    max_rows,              \* --max-rows (nullable)
    out_json,              \* summarize_data: whether --out-json was given
    drop_prob_cols,        \* aggregate: --drop-prob-cols
    i,                     \* number of batches taken from the reader / scanner so far
    batch,                 \* the batch in flight (nullable)
    total_rows,
    pre_ids,
    post_ids,
    neuropils,
    syn_hist,
    neuropil_syn_hist,
    neuropil_nt_syn_hist,
    global_nt_syn_hist,
    total_written,
    file_index,
    dataset,               \* the segments under dataset_root
    removed,               \* the segments rmtree took away when the writer started
    requested,             \* per batch request: the rows scanned when it was made
    delivered,             \* per processed batch: its row count after slicing
    report,                \* what main() reports after the loop (nullable)
    error,                 \* the exception that ended the run (nullable)
    arg,                   \* input of a function under test
    ret,                   \* its result (nullable)
    neurons,               \* graph store: the root_id of every :Neuron node
    connects_to,           \* graph store: the :CONNECTS_TO relationships
    summaries,             \* graph store: the :DatasetSummary nodes
    queries                \* the statements session.run has sent to the store

vars == <<prog, pc, path_exists, schema, error, src, max_rows, out_json, drop_prob_cols, i, batch, total_rows,
          pre_ids, post_ids, neuropils, syn_hist, neuropil_syn_hist,
          neuropil_nt_syn_hist, global_nt_syn_hist, total_written, file_index,
          dataset, removed, requested, delivered, report, arg, ret,
          neurons, connects_to, summaries, queries>>

accVars == <<total_rows, pre_ids, post_ids, neuropils, syn_hist, neuropil_syn_hist,
             neuropil_nt_syn_hist, global_nt_syn_hist>>

writerVars == <<total_written, file_index, dataset, removed>>

inputVars == <<prog, path_exists, schema, src, max_rows, out_json, drop_prob_cols>>

fnVars == <<arg, ret>>

storeVars == <<neurons, connects_to, summaries, queries>>

----------------------------------------------------------------------------
(* Bounds of the model *)

\* longest source, in rows
MaxRows == 3

\* probability values are 1..MaxProb (a scaled probability)
MaxProb == 2

\* statements the store has received after which no further call is started
MaxStatements == 4

----------------------------------------------------------------------------
(* Nullable values *)

NULL == <<>>

Some(v) == <<v>>

IsNull(x) == x = <<>>

SetMax(S) == CHOOSE m \in S : \A x \in S : x <= m

SetMin(S) == CHOOSE m \in S : \A x \in S : m <= x

RECURSIVE SumOver(_, _)
\* sum(h.values()) for a dict h restricted to the keys K
SumOver(h, K) ==
    IF K = {} THEN 0
    ELSE LET k == CHOOSE x \in K : TRUE
         IN  h[k] + SumOver(h, K \ {k})

DictSum(h) == SumOver(h, DOMAIN h)

RECURSIVE SeqSum(_)
SeqSum(s) == IF s = <<>> THEN 0 ELSE Head(s) + SeqSum(Tail(s))

RECURSIVE Flatten(_)
\* the rows of a sequence of batches, in order
Flatten(bs) == IF bs = <<>> THEN <<>> ELSE Head(bs) \o Flatten(Tail(bs))

\* batch.slice(0, n)
Slice(b, n) == SubSeq(b, 1, IF n < Len(b) THEN n ELSE Len(b))

----------------------------------------------------------------------------
(* Strings as character sequences *)

Str_GABA == <<"G","A","B","A">>
Str_Acetylcholine == <<"A","c","e","t","y","l","c","h","o","l","i","n","e">>
Str_Glutamate == <<"G","l","u","t","a","m","a","t","e">>
Str_Octopamine == <<"O","c","t","o","p","a","m","i","n","e">>
Str_Serotonin == <<"S","e","r","o","t","o","n","i","n">>
Str_Dopamine == <<"D","o","p","a","m","i","n","e">>

\* aggregate.py NEURO_COLS
NEURO_COLS == <<"gaba_avg", "ach_avg", "glut_avg", "oct_avg", "ser_avg", "da_avg">>

\* aggregate.py NEURO_LABELS
NEURO_LABELS ==
    [c \in {"gaba_avg", "ach_avg", "glut_avg", "oct_avg", "ser_avg", "da_avg"} |->
        CASE c = "gaba_avg" -> Str_GABA
          [] c = "ach_avg"  -> Str_Acetylcholine
          [] c = "glut_avg" -> Str_Glutamate
          [] c = "oct_avg"  -> Str_Octopamine
          [] c = "ser_avg"  -> Str_Serotonin
          [] c = "da_avg"   -> Str_Dopamine]

\* summarize_data.py _NT_COLS: (name, column) pairs
NT_COLS ==
    << <<Str_GABA, "gaba_avg">>, <<Str_Acetylcholine, "ach_avg">>,
       <<Str_Glutamate, "glut_avg">>, <<Str_Octopamine, "oct_avg">>,
       <<Str_Serotonin, "ser_avg">>, <<Str_Dopamine, "da_avg">> >>

\* summarize_parquet.py NEUROTRANSMITTERS
NEUROTRANSMITTERS ==
    <<Str_GABA, Str_Acetylcholine, Str_Glutamate, Str_Octopamine, Str_Serotonin,
      Str_Dopamine>>

RECURSIVE ListJoin_Trailing(_, _)
\* a join that writes the separator after every element
ListJoin_Trailing(l, sep) ==
    IF l = <<>> THEN <<>> ELSE Head(l) \o sep \o ListJoin_Trailing(Tail(l), sep)

RECURSIVE ListJoin(_, _)
\* polars list.join(sep) on a list without nulls; the empty list gives ""
ListJoin(l, sep) ==
    IF l = <<>> THEN <<>>
    ELSE IF Len(l) = 1 THEN Head(l)
    ELSE Head(l) \o sep \o ListJoin(Tail(l), sep)

RECURSIVE SplitFrom(_, _, _)
\* the pieces of s after the piece `cur` that is being read
SplitFrom(s, sep, cur) ==
    IF s = <<>> THEN <<cur>>
    ELSE IF Head(s) = sep THEN <<cur>> \o SplitFrom(Tail(s), sep, <<>>)
    ELSE SplitFrom(Tail(s), sep, Append(cur, Head(s)))

\* polars str.split(sep) for a one-character sep: "" gives [""]
StrSplit(s, sep) == SplitFrom(s, sep, <<>>)

RECURSIVE StripLeft(_)
StripLeft(s) == IF s # <<>> /\ Head(s) = " " THEN StripLeft(Tail(s)) ELSE s

RECURSIVE StripRight(_)
StripRight(s) ==
    IF s # <<>> /\ s[Len(s)] = " " THEN StripRight(SubSeq(s, 1, Len(s) - 1)) ELSE s

\* polars str.strip_chars() with no argument: whitespace off both ends
StripChars(s) == StripRight(StripLeft(s))

----------------------------------------------------------------------------
(* Polars expressions, row by row *)

\* pl.max_horizontal over the columns cols of row r: nulls are skipped,
\* all-null gives null
MaxHorizontal(r, cols) ==
    LET present == {r[cols[k]][1] : k \in {j \in 1..Len(cols) : ~IsNull(r[cols[j]])}}
    IN  IF present = {} THEN NULL ELSE Some(SetMax(present))

\* Python's ==, under which None equals None
PlEq_NullsEqual(a, b) == Some(a = b)

\* pl.col(a) == pl.col(b): null when either side is null
PlEq(a, b) == IF IsNull(a) \/ IsNull(b) THEN NULL ELSE Some(a[1] = b[1])

\* pl.when(cond).then(x).otherwise(None): a null condition takes the otherwise branch
WhenThen(cond, x) == IF cond = Some(TRUE) THEN Some(x) ELSE NULL

RECURSIVE DropNulls(_)
\* list.drop_nulls(): the non-null elements, in order
DropNulls(l) ==
    IF l = <<>> THEN <<>>
    ELSE IF IsNull(Head(l)) THEN DropNulls(Tail(l))
    ELSE <<Head(l)[1]>> \o DropNulls(Tail(l))

\* fill_null(v)
FillNull(x, v) == IF IsNull(x) THEN Some(v) ELSE x

----------------------------------------------------------------------------
(* Rows *)

\* a row of the connections table; p is the probability vector in NEURO_COLS order
MkRow(pre, post, np, syn, p) ==
    [pre_pt_root_id |-> pre, post_pt_root_id |-> post, neuropil |-> np,
     syn_count |-> syn,
     gaba_avg |-> p[1], ach_avg |-> p[2], glut_avg |-> p[3],
     oct_avg |-> p[4], ser_avg |-> p[5], da_avg |-> p[6]]

Nullable(S) == {NULL} \cup {Some(v) : v \in S}

\* every probability vector over null and 1..MaxProb
ProbVectors == [1..6 -> Nullable(1..MaxProb)]

\* the rows the scans are run on: single maximum, ties of 2 and of 6, all-null
\* probabilities, null partition label, null weight, null endpoint ids
RowPool ==
    { MkRow(Some(1), Some(2), Some("AL"), Some(5),
            <<Some(2), Some(1), Some(1), Some(1), Some(1), Some(1)>>),
      MkRow(Some(2), Some(1), Some("AL"), Some(5),
            <<Some(2), Some(2), Some(1), NULL, Some(1), Some(1)>>),
      MkRow(Some(2), Some(2), Some("MB"), Some(10),
            <<NULL, NULL, Some(1), NULL, NULL, Some(1)>>),
      MkRow(Some(1), NULL, Some("AL"), Some(10),
            <<NULL, NULL, NULL, NULL, NULL, NULL>>),
      MkRow(NULL, Some(3), NULL, Some(10),
            <<Some(1), Some(1), Some(1), Some(1), Some(1), Some(1)>>),
      MkRow(Some(3), Some(3), Some("MB"), NULL,
            <<NULL, NULL, NULL, NULL, NULL, Some(2)>>) }

----------------------------------------------------------------------------
(* aggregate.py _add_dominant_columns, and the same expression in summarize_data *)

\* one row of _add_dominant_columns: dominant_score, then dominant_nt
AddDominantRow(r) ==
    LET score == MaxHorizontal(r, NEURO_COLS)
        lst == [k \in 1..Len(NEURO_COLS) |->
                   WhenThen(PlEq(r[NEURO_COLS[k]], score), NEURO_LABELS[NEURO_COLS[k]])]
        joined == Some(ListJoin(DropNulls(lst), <<",">>))
    IN  r @@ [dominant_score |-> score, dominant_nt |-> FillNull(joined, <<>>)]

add_dominant_columns(df) == [j \in 1..Len(df) |-> AddDominantRow(df[j])]

\* summarize_data: the dominant_nt_list column of one row
SdDominantList(r) ==
    LET nt_max == MaxHorizontal(r, [k \in 1..Len(NT_COLS) |-> NT_COLS[k][2]])
    IN  DropNulls([k \in 1..Len(NT_COLS) |->
                      WhenThen(PlEq(r[NT_COLS[k][2]], nt_max), NT_COLS[k][1])])

\* aggregate: df.drop(NEURO_COLS)
DropProbCols(r) ==
    [f \in DOMAIN r \ {NEURO_COLS[k] : k \in 1..Len(NEURO_COLS)} |-> r[f]]

----------------------------------------------------------------------------
(* Histogram accumulation *)

\* h[k] = c: the count of the batch replaces the count so far
HistAdd_Overwrite(h, k, c) == [x \in DOMAIN h \cup {k} |-> IF x = k THEN c ELSE h[x]]

\* h[k] = h.get(k, 0) + c
HistAdd(h, k, c) ==
    [x \in DOMAIN h \cup {k} |->
        IF x = k THEN (IF k \in DOMAIN h THEN h[k] ELSE 0) + c ELSE h[x]]

\* d[a] = {} in place of setdefault: the inner histogram starts over
NestedAdd_Reset(d, a, k, c) ==
    [x \in DOMAIN d \cup {a} |-> IF x = a THEN HistAdd(<<>>, k, c) ELSE d[x]]

\* d.setdefault(a, {}); d[a][k] = d[a].get(k, 0) + c
NestedAdd(d, a, k, c) ==
    [x \in DOMAIN d \cup {a} |->
        IF x = a THEN HistAdd(IF a \in DOMAIN d THEN d[a] ELSE <<>>, k, c) ELSE d[x]]

\* d[a][b] = {} in place of the second setdefault
Nested2Add_Reset(d, a, b, k, c) ==
    [x \in DOMAIN d \cup {a} |->
        IF x = a THEN NestedAdd_Reset(IF a \in DOMAIN d THEN d[a] ELSE <<>>, b, k, c)
        ELSE d[x]]

\* d.setdefault(a, {}); d[a].setdefault(b, {}); d[a][b][k] = d[a][b].get(k, 0) + c
Nested2Add(d, a, b, k, c) ==
    [x \in DOMAIN d \cup {a} |->
        IF x = a THEN NestedAdd(IF a \in DOMAIN d THEN d[a] ELSE <<>>, b, k, c) ELSE d[x]]

\* group_by(keys) without .len(): every group counted once
GroupLen_Unique(keys) == [k \in {keys[j] : j \in DOMAIN keys} |-> 1]

\* group_by(keys).len(): one entry per distinct key, its value the number of rows
GroupLen(keys) ==
    [k \in {keys[j] : j \in DOMAIN keys} |-> Cardinality({j \in DOMAIN keys : keys[j] = k})]

\* the histogram rebuilt from the groups of the batch alone
MergeHist_Fresh(h, g, K) == [k \in K |-> g[k]]

RECURSIVE MergeHist(_, _, _)
\* for syn_count, count in g.iter_rows(): the groups K of g that are still to come
MergeHist(h, g, K) ==
    IF K = {} THEN h
    ELSE LET k == CHOOSE x \in K : TRUE
         IN  MergeHist(HistAdd(h, k, g[k]), g, K \ {k})

RECURSIVE MergeNested(_, _, _)
\* for a, syn_count, count in g.iter_rows()
MergeNested(d, g, K) ==
    IF K = {} THEN d
    ELSE LET k == CHOOSE x \in K : TRUE
         IN  MergeNested(NestedAdd(d, k[1], k[2], g[k]), g, K \ {k})

RECURSIVE MergeNested2(_, _, _)
\* for neuropil, nt, syn_count, count in g2.iter_rows()
MergeNested2(d, g, K) ==
    IF K = {} THEN d
    ELSE LET k == CHOOSE x \in K : TRUE
         IN  MergeNested2(Nested2Add(d, k[1], k[2], k[3], g[k]), g, K \ {k})

\* df.drop_nulls(cols)
DropNullRows(df, cols) == SelectSeq(df, LAMBDA r : \A c \in cols : ~IsNull(r[c]))

\* only the first row of the batch is looked at
UniqueOf_FirstRow(df, col) ==
    {df[j][col][1] : j \in {x \in DOMAIN df : x = 1 /\ ~IsNull(df[x][col])}}

\* select(col).drop_nulls().unique().to_list(), as the set that update() adds
UniqueOf(df, col) == {df[j][col][1] : j \in {x \in DOMAIN df : ~IsNull(df[x][col])}}

RECURSIVE Explode_FirstOnly(_, _)
\* a tie broken in favour of the first name of the list
Explode_FirstOnly(df, col) ==
    IF df = <<>> THEN <<>>
    ELSE LET r == Head(df)
             l == r[col]
         IN  <<[r EXCEPT ![col] = IF l = <<>> THEN NULL ELSE Some(l[1])]>>
             \o Explode_FirstOnly(Tail(df), col)

RECURSIVE Explode(_, _)
\* df.explode(col) for a list column: one row per element, and one row holding
\* null for an empty list
Explode(df, col) ==
    IF df = <<>> THEN <<>>
    ELSE LET r == Head(df)
             l == r[col]
         IN  (IF l = <<>> THEN <<[r EXCEPT ![col] = NULL]>>
              ELSE [k \in 1..Len(l) |-> [r EXCEPT ![col] = Some(l[k])]])
             \o Explode(Tail(df), col)

\* the global syn_count histogram after a batch  (g_syn and its loop)
AddSynHist(h, df) ==
    LET d == DropNullRows(df, {"syn_count"})
        g == GroupLen([j \in DOMAIN d |-> d[j].syn_count[1]])
    IN  MergeHist(h, g, DOMAIN g)

\* the per-neuropil histogram fed with the distinct (neuropil, syn_count) pairs
\* of the batch, one count each
AddNeuropilHist_Distinct(nh, df) ==
    LET d == DropNullRows(df, {"neuropil", "syn_count"})
        g == [k \in {<<d[j].neuropil[1], d[j].syn_count[1]>> : j \in DOMAIN d} |-> 1]
    IN  MergeNested(nh, g, DOMAIN g)

\* the per-neuropil histogram after a batch  (g and its loop)
AddNeuropilHist(nh, df) ==
    LET d == DropNullRows(df, {"neuropil", "syn_count"})
        g == GroupLen([j \in DOMAIN d |-> <<d[j].neuropil[1], d[j].syn_count[1]>>])
    IN  MergeNested(nh, g, DOMAIN g)

\* the per-neuropil-per-neurotransmitter histogram after a batch, from the
\* exploded frame df2  (g2 and its loop)
AddNeuropilNtHist(nnh, df2) ==
    LET g2 == GroupLen([j \in DOMAIN df2 |->
                  <<df2[j].neuropil[1], df2[j].dominant_nt_list[1], df2[j].syn_count[1]>>])
    IN  MergeNested2(nnh, g2, DOMAIN g2)

\* the global per-neurotransmitter histogram after a batch  (g3 and its loop)
AddGlobalNtHist(gh, df2) ==
    LET g3 == GroupLen([j \in DOMAIN df2 |->
                  <<df2[j].dominant_nt_list[1], df2[j].syn_count[1]>>])
    IN  MergeNested(gh, g3, DOMAIN g3)

\* summarize_data: df2, the frame exploded by dominant neurotransmitter
SdExploded(b) ==
    LET d == DropNullRows(b, {"neuropil", "syn_count"})
        withList == [j \in DOMAIN d |-> d[j] @@ [dominant_nt_list |-> SdDominantList(d[j])]]
    IN  DropNullRows(Explode(withList, "dominant_nt_list"), {"dominant_nt_list"})

\* summarize_parquet: df2, from the persisted dominant_nt string
SpExploded(b) ==
    LET d == DropNullRows(DropNullRows(b, {"neuropil", "syn_count"}), {"dominant_nt"})
        withList == [j \in DOMAIN d |->
                        d[j] @@ [dominant_nt_list |-> StrSplit(d[j].dominant_nt[1], ",")]]
        exploded == Explode(withList, "dominant_nt_list")
        stripped == [j \in DOMAIN exploded |->
                        [exploded[j] EXCEPT !.dominant_nt_list =
                            IF IsNull(@) THEN NULL ELSE Some(StripChars(@[1]))]]
    IN  DropNullRows(stripped, {"dominant_nt_list"})

----------------------------------------------------------------------------
(* One batch into the accumulators *)

\* the accumulators of a run, as one record
Acc ==
    [total_rows |-> total_rows, pre_ids |-> pre_ids, post_ids |-> post_ids,
     neuropils |-> neuropils, syn_hist |-> syn_hist,
     neuropil_syn_hist |-> neuropil_syn_hist,
     neuropil_nt_syn_hist |-> neuropil_nt_syn_hist,
     global_nt_syn_hist |-> global_nt_syn_hist]

\* the accumulators as main() creates them
EmptyAcc ==
    [total_rows |-> 0, pre_ids |-> {}, post_ids |-> {}, neuropils |-> {},
     syn_hist |-> <<>>, neuropil_syn_hist |-> <<>>, neuropil_nt_syn_hist |-> <<>>,
     global_nt_syn_hist |-> <<>>]

SetAcc(a) ==
    /\ total_rows' = a.total_rows
    /\ pre_ids' = a.pre_ids
    /\ post_ids' = a.post_ids
    /\ neuropils' = a.neuropils
    /\ syn_hist' = a.syn_hist
    /\ neuropil_syn_hist' = a.neuropil_syn_hist
    /\ neuropil_nt_syn_hist' = a.neuropil_nt_syn_hist
    /\ global_nt_syn_hist' = a.global_nt_syn_hist

\* summarize_data: the loop body after slicing.  Without --out-json the three
\* nested histograms are None and are left alone.
SdAccumulate(a, b, oj) ==
    [total_rows |-> a.total_rows + Len(b),
     pre_ids |-> a.pre_ids \cup UniqueOf(b, "pre_pt_root_id"),
     post_ids |-> a.post_ids \cup UniqueOf(b, "post_pt_root_id"),
     neuropils |-> a.neuropils \cup UniqueOf(b, "neuropil"),
     syn_hist |-> AddSynHist(a.syn_hist, b),
     neuropil_syn_hist |->
        IF oj THEN AddNeuropilHist(a.neuropil_syn_hist, b) ELSE a.neuropil_syn_hist,
     neuropil_nt_syn_hist |->
        IF oj THEN AddNeuropilNtHist(a.neuropil_nt_syn_hist, SdExploded(b))
        ELSE a.neuropil_nt_syn_hist,
     global_nt_syn_hist |->
        IF oj THEN AddGlobalNtHist(a.global_nt_syn_hist, SdExploded(b))
        ELSE a.global_nt_syn_hist]

\* summarize_parquet: the loop body after slicing
SpAccumulate(a, b) ==
    [total_rows |-> a.total_rows + Len(b),
     pre_ids |-> a.pre_ids \cup UniqueOf(b, "pre_pt_root_id"),
     post_ids |-> a.post_ids \cup UniqueOf(b, "post_pt_root_id"),
     neuropils |-> a.neuropils \cup UniqueOf(b, "neuropil"),
     syn_hist |-> AddSynHist(a.syn_hist, b),
     neuropil_syn_hist |-> AddNeuropilHist(a.neuropil_syn_hist, b),
     neuropil_nt_syn_hist |-> AddNeuropilNtHist(a.neuropil_nt_syn_hist, SpExploded(b)),
     global_nt_syn_hist |-> AddGlobalNtHist(a.global_nt_syn_hist, SpExploded(b))]

\* the batch passed on whole: the slice is forgotten
Capped_NoSlice(b, cap, total) == b

\* if batch.num_rows > remaining: batch = batch.slice(0, remaining)
Capped(b, cap, total) ==
    IF ~IsNull(cap) /\ Len(b) > cap[1] - total THEN Slice(b, cap[1] - total) ELSE b

----------------------------------------------------------------------------
(* Sources *)

\* the sequences of length n over S
SeqsOfLen(S, n) == [1..n -> S]

RECURSIVE Sources(_, _)
\* every way to lay at most n rows of S out as consecutive non-empty batches
Sources(S, n) ==
    {<<>>} \cup UNION {{<<b>> \o rest : b \in SeqsOfLen(S, k), rest \in Sources(S, n - k)}
                         : k \in 1..n}

\* --max-rows: not given, or 0 .. one more than the longest source
Caps == Nullable(0..(MaxRows + 1))

\* dataset.scanner(columns=needed_cols): the columns of a scanned row
NeededCols(r) ==
    [f \in {"pre_pt_root_id", "post_pt_root_id", "neuropil", "syn_count", "dominant_nt"}
        |-> r[f]]

\* the batches of a dataset written by aggregate.py: every batch comes from one
\* neuropil=<value> directory and carries the dominant columns written there
DatasetSources ==
    {[k \in DOMAIN bs |-> add_dominant_columns(bs[k])]
        : bs \in {x \in Sources(RowPool, MaxRows) :
                     \A k \in DOMAIN x : \A j \in DOMAIN x[k] :
                         x[k][j].neuropil = x[k][1].neuropil}}

----------------------------------------------------------------------------
(* The state outside a run *)

\* a graph store nothing has been sent to
NoStore == neurons = <<>> /\ connects_to = <<>> /\ summaries = <<>> /\ queries = <<>>

\* no script has run
NoScan ==
    /\ path_exists = FALSE /\ schema = {} /\ error = NULL
    /\ src = <<>> /\ max_rows = NULL /\ out_json = FALSE /\ drop_prob_cols = FALSE
    /\ i = 0 /\ batch = NULL /\ total_rows = 0
    /\ pre_ids = {} /\ post_ids = {} /\ neuropils = {}
    /\ syn_hist = <<>> /\ neuropil_syn_hist = <<>>
    /\ neuropil_nt_syn_hist = <<>> /\ global_nt_syn_hist = <<>>
    /\ total_written = 0 /\ file_index = 0 /\ dataset = <<>> /\ removed = {}
    /\ requested = <<>> /\ delivered = <<>> /\ report = NULL

NoRun == NoScan /\ NoStore

runVars == <<path_exists, schema, error, src, max_rows, out_json, drop_prob_cols, i, batch, total_rows, pre_ids,
             post_ids, neuropils, syn_hist, neuropil_syn_hist, neuropil_nt_syn_hist,
             global_nt_syn_hist, total_written, file_index, dataset, removed,
             requested, delivered, report>>

----------------------------------------------------------------------------
(* summarize_data.py _nearest_quantile_from_hist *)

\* quantile fractions are k/QDen, written <<k, QDen>>
QDen == 4

\* --quantiles: the fractions the run is asked for
Quantiles == {<<k, QDen>> : k \in 0..QDen}

Return(v) == [value |-> v]

Raise(e) == [raised |-> e]

Returned(x) == "value" \in DOMAIN x

\* Python round(num/den), den > 0: halves go to the even neighbour
PyRound(num, den) ==
    LET f == num \div den
        r == num % den
    IN  IF 2 * r < den THEN f
        ELSE IF 2 * r > den THEN f + 1
        ELSE IF f % 2 = 0 THEN f ELSE f + 1

RECURSIVE QuantileLoop_OffByOne(_, _, _, _)
\* the loop with `running >= target_index` as its test
QuantileLoop_OffByOne(hist, K, running, target_index) ==
    IF K = {} THEN Return(SetMax(DOMAIN hist))
    ELSE LET value == SetMin(K)
         IN  IF running + hist[value] >= target_index THEN Return(value)
             ELSE QuantileLoop_OffByOne(hist, K \ {value}, running + hist[value],
                                        target_index)

RECURSIVE QuantileLoop(_, _, _, _)
\* for value in sorted(hist.keys()), over the keys K still to come
QuantileLoop(hist, K, running, target_index) ==
    IF K = {} THEN Return(SetMax(DOMAIN hist))
    ELSE LET value == SetMin(K)
         IN  IF running + hist[value] - 1 >= target_index THEN Return(value)
             ELSE QuantileLoop(hist, K \ {value}, running + hist[value], target_index)

\* the rank taken from the other end: round((1 - q) * (total - 1))
nearest_quantile_from_hist_Reversed(hist, q, total) ==
    IF total <= 0 THEN Raise("ValueError")
    ELSE IF DOMAIN hist = {} THEN Raise("ValueError")
    ELSE QuantileLoop(hist, DOMAIN hist, 0, PyRound((q[2] - q[1]) * (total - 1), q[2]))

\* _nearest_quantile_from_hist: q is not looked at before it is used, and
\* max() of no keys raises ValueError
nearest_quantile_from_hist(hist, q, total) ==
    IF total <= 0 THEN Raise("ValueError")
    ELSE IF DOMAIN hist = {} THEN Raise("ValueError")
    ELSE QuantileLoop(hist, DOMAIN hist, 0, PyRound(q[1] * (total - 1), q[2]))

----------------------------------------------------------------------------------------------------------------------------------------
(* aggregate.py: the dataset under dataset_root *)

\* the file's columns: the partition column lives in the directory name
DropPartitionCol(r) == [f \in DOMAIN r \ {"neuropil"} |-> r[f]]

\* the old tree left where it is
Rmtree_Keep(ds) == ds

\* shutil.rmtree(dataset_root); os.makedirs(dataset_root): no segment is left
Rmtree(ds) == <<>>

\* a template without the file index: part-{i}.parquet
SegmentPath_NoIndex(v, fi) == <<v, 0>>

\* neuropil=<v>/part-<fi>-0.parquet, as the pair of its directory and file index
SegmentPath(v, fi) == <<v, fi>>

\* rows whose partition value is null are left out
WriteToDataset_DropNull(ds, df, fi) ==
    LET dirs == {df[j].neuropil : j \in DOMAIN df} \ {NULL}
        rowsOf(v) == SelectSeq(df, LAMBDA r : r.neuropil = v)
        new == {SegmentPath(v, fi) : v \in dirs}
    IN  [path \in DOMAIN ds \cup new |->
            IF path \in new
            THEN [j \in DOMAIN rowsOf(path[1]) |-> DropPartitionCol(rowsOf(path[1])[j])]
            ELSE ds[path]]

\* the dataset after pq.write_to_dataset(df) with file index fi: one file per
\* neuropil value of df, under that value's directory (a null value has a
\* directory of its own); a file of the same name is replaced
WriteToDataset(ds, df, fi) ==
    LET dirs == {df[j].neuropil : j \in DOMAIN df}
        rowsOf(v) == SelectSeq(df, LAMBDA r : r.neuropil = v)
        new == {SegmentPath(v, fi) : v \in dirs}
    IN  [path \in DOMAIN ds \cup new |->
            IF path \in new
            THEN [j \in DOMAIN rowsOf(path[1]) |-> DropPartitionCol(rowsOf(path[1])[j])]
            ELSE ds[path]]

\* out_table: the batch with its dominant columns, without the probability
\* columns under --drop-prob-cols
OutTable(b, dp) ==
    LET df == add_dominant_columns(b)
    IN  IF dp THEN [j \in DOMAIN df |-> DropProbCols(df[j])] ELSE df

RECURSIVE AggRun(_, _, _, _, _, _)
\* the writer's loop over the batches bs, from the dataset ds, file index fi
\* and total rows written
AggRun(ds, bs, fi, cap, total, dp) ==
    IF bs = <<>> \/ (~IsNull(cap) /\ total >= cap[1]) THEN ds
    ELSE LET out_table == OutTable(Capped(Head(bs), cap, total), dp)
         IN  AggRun(WriteToDataset(ds, out_table, fi), Tail(bs), fi + 1, cap,
                    total + Len(out_table), dp)

----------------------------------------------------------------------------
(* Columns *)

NeuroColSet == {NEURO_COLS[k] : k \in 1..Len(NEURO_COLS)}

\* the columns of the connections table
SourceCols == {"pre_pt_root_id", "post_pt_root_id", "neuropil", "syn_count"} \cup NeuroColSet

\* the columns of the dataset written with the probability columns kept
DatasetCols == SourceCols \cup {"dominant_score", "dominant_nt"}

\* a row of a source that has only the columns cols
Project(r, cols) == [f \in DOMAIN r \cap cols |-> r[f]]

ProjectSource(bs, cols) ==
    [k \in DOMAIN bs |-> [j \in DOMAIN bs[k] |-> Project(bs[k][j], cols)]]

\* the open that finds a file wherever it looks
FileFound_Always(ex) == TRUE

\* os.path.exists(feather_path) / open(path, "rb") succeeding
FileFound(ex) == ex

\* a reader that hands out the batch before the one asked for, once there is one
get_batch_Previous(bs, n) == bs[IF n > 0 THEN n ELSE 1]

\* reader.get_batch(i)
get_batch(bs, n) == bs[n + 1]

----------------------------------------------------------------------------
(* The three scans *)

\* the locals of main() as they are created
Fresh ==
    /\ i = 0 /\ batch = NULL /\ total_rows = 0
    /\ pre_ids = {} /\ post_ids = {} /\ neuropils = {}
    /\ syn_hist = <<>> /\ neuropil_syn_hist = <<>>
    /\ neuropil_nt_syn_hist = <<>> /\ global_nt_syn_hist = <<>>
    /\ total_written = 0 /\ file_index = 0 /\ removed = {}
    /\ requested = <<>> /\ delivered = <<>> /\ report = NULL /\ error = NULL
    /\ arg = NULL /\ ret = NULL
    /\ NoStore

Idle == Fresh /\ dataset = <<>>

\* the scan loops of the three scripts start from an opened, well-formed source
InitSd ==
    /\ prog = "sd" /\ pc = "loop"
    /\ path_exists = TRUE /\ schema = SourceCols
    /\ src \in Sources(RowPool, MaxRows)
    /\ max_rows \in Caps
    /\ out_json \in BOOLEAN
    /\ drop_prob_cols = FALSE
    /\ Idle

InitAgg ==
    /\ prog = "agg" /\ pc = "loop"
    /\ path_exists = TRUE /\ schema = SourceCols
    /\ src \in Sources(RowPool, MaxRows)
    /\ max_rows \in Caps
    /\ out_json = FALSE
    /\ drop_prob_cols \in BOOLEAN
    /\ Idle

InitSp ==
    /\ prog = "sp" /\ pc = "loop"
    /\ path_exists = TRUE /\ schema = DatasetCols
    /\ src \in DatasetSources
    /\ max_rows \in Caps
    /\ out_json = TRUE
    /\ drop_prob_cols = FALSE
    /\ Idle

\* the three scripts side by side: summarize_data asked for its JSON summary,
\* aggregate keeping the probability columns (its default)
Init == (InitSd /\ out_json) \/ (InitAgg /\ ~drop_prob_cols) \/ InitSp

\* summarize_data: main() down to ipc.open_file
SdOpen ==
    /\ prog = "sd" /\ pc = "start"
    /\ IF FileFound(path_exists)
       THEN pc' = "loop" /\ error' = NULL
       ELSE pc' = "raised" /\ error' = Some("FileNotFoundError")
    /\ UNCHANGED <<inputVars, i, batch, accVars, writerVars, requested, delivered,
                   report, fnVars, storeVars>>

\* summarize_data: the head of `for i in range(reader.num_record_batches)` up to
\* reader.get_batch(i)
SdNext ==
    /\ prog = "sd" /\ pc = "loop"
    /\ IF i >= Len(src) \/ (~IsNull(max_rows) /\ total_rows >= max_rows[1])
       THEN /\ pc' = "after"
            /\ UNCHANGED <<batch, requested>>
       ELSE /\ batch' = Some(get_batch(src, i))
            /\ requested' = Append(requested, total_rows)
            /\ pc' = "body"
    /\ UNCHANGED <<inputVars, i, accVars, writerVars, delivered, report, error, fnVars, storeVars>>

\* summarize_data: the rest of the iteration, from the slice to the last
\* histogram.  Table.select raises KeyError on a column the batch does not have:
\* at line 126 once the rows are counted, at line 189 (--out-json only) once the
\* id sets and the first two histograms are updated.
SdBody ==
    /\ prog = "sd" /\ pc = "body"
    /\ IF ~IsNull(max_rows) /\ max_rows[1] - total_rows <= 0
       THEN /\ pc' = "after"
            /\ UNCHANGED <<i, accVars, delivered, error>>
       ELSE LET b == Capped(batch[1], max_rows, total_rows)
            IN  IF ~({"pre_pt_root_id", "post_pt_root_id", "neuropil", "syn_count"}
                        \subseteq schema)
                THEN /\ total_rows' = total_rows + Len(b)
                     /\ pc' = "raised" /\ error' = Some("KeyError")
                     /\ UNCHANGED <<i, delivered, pre_ids, post_ids, neuropils, syn_hist,
                                    neuropil_syn_hist, neuropil_nt_syn_hist,
                                    global_nt_syn_hist>>
                ELSE IF out_json /\ ~(NeuroColSet \subseteq schema)
                THEN /\ SetAcc([SdAccumulate(Acc, b, FALSE) EXCEPT
                                   !.neuropil_syn_hist = AddNeuropilHist(neuropil_syn_hist, b)])
                     /\ pc' = "raised" /\ error' = Some("KeyError")
                     /\ UNCHANGED <<i, delivered>>
                ELSE /\ SetAcc(SdAccumulate(Acc, b, out_json))
                     /\ delivered' = Append(delivered, Len(b))
                     /\ i' = i + 1
                     /\ pc' = "loop"
                     /\ error' = NULL
    /\ batch' = NULL
    /\ UNCHANGED <<inputVars, writerVars, requested, report, fnVars, storeVars>>

\* summarize_data: min, max, median and quantiles of syn_hist after the loop
SdReport ==
    /\ prog = "sd" /\ pc = "after"
    /\ IF DOMAIN syn_hist # {}
       THEN LET median == nearest_quantile_from_hist(syn_hist, <<1, 2>>, total_rows)
                qs == [q \in Quantiles |-> nearest_quantile_from_hist(syn_hist, q, total_rows)]
            IN  IF Returned(median) /\ \A q \in Quantiles : Returned(qs[q])
                THEN /\ report' = Some([min |-> Some(SetMin(DOMAIN syn_hist)),
                                        max |-> Some(SetMax(DOMAIN syn_hist)),
                                        median |-> Some(median.value),
                                        quantiles |-> [q \in Quantiles |-> qs[q].value]])
                     /\ pc' = "end"
                     /\ error' = NULL
                ELSE /\ report' = NULL
                     /\ pc' = "raised"
                     /\ error' = Some("ValueError")
       ELSE /\ report' = Some([min |-> NULL, max |-> NULL, median |-> NULL,
                               quantiles |-> <<>>])
            /\ pc' = "end"
            /\ error' = NULL
    /\ UNCHANGED <<inputVars, i, batch, accVars, writerVars, requested, delivered, fnVars, storeVars>>

\* aggregate: write_partitioned_parquet_by_neuropil down to ipc.open_file: the
\* existence test, then the old dataset_root removed and made anew
AggOpen ==
    /\ prog = "agg" /\ pc = "start"
    /\ IF FileFound(path_exists)
       THEN /\ dataset' = Rmtree(dataset)
            /\ removed' = DOMAIN dataset \ DOMAIN Rmtree(dataset)
            /\ total_written' = 0
            /\ file_index' = 0
            /\ pc' = "loop" /\ error' = NULL
       ELSE /\ pc' = "raised" /\ error' = Some("FileNotFoundError")
            /\ UNCHANGED writerVars
    /\ UNCHANGED <<inputVars, i, batch, accVars, requested, delivered, report, fnVars, storeVars>>

\* aggregate: the head of `for i in range(num_batches)` up to reader.get_batch(i)
AggNext ==
    /\ prog = "agg" /\ pc = "loop"
    /\ IF i >= Len(src) \/ (~IsNull(max_rows) /\ total_written >= max_rows[1])
       THEN /\ pc' = "after"
            /\ UNCHANGED <<batch, requested>>
       ELSE /\ batch' = Some(get_batch(src, i))
            /\ requested' = Append(requested, total_written)
            /\ pc' = "body"
    /\ UNCHANGED <<inputVars, i, accVars, writerVars, delivered, report, error, fnVars, storeVars>>

\* aggregate: slice, add the dominant columns, write one segment.
\* _add_dominant_columns raises ValueError when a probability column is missing;
\* write_to_dataset raises when the partition column is missing; no other
\* column is looked for.
AggBody ==
    /\ prog = "agg" /\ pc = "body"
    /\ IF ~IsNull(max_rows) /\ max_rows[1] - total_written <= 0
       THEN /\ pc' = "after"
            /\ UNCHANGED <<i, writerVars, delivered, error>>
       ELSE LET b == Capped(batch[1], max_rows, total_written)
            IN  IF ~(NeuroColSet \subseteq schema)
                THEN /\ pc' = "raised" /\ error' = Some("ValueError")
                     /\ UNCHANGED <<i, writerVars, delivered>>
                ELSE IF "neuropil" \notin schema
                THEN /\ pc' = "raised" /\ error' = Some("KeyError")
                     /\ UNCHANGED <<i, writerVars, delivered>>
                ELSE LET out_table == OutTable(b, drop_prob_cols)
                     IN  /\ dataset' = WriteToDataset(dataset, out_table, file_index)
                         /\ file_index' = file_index + 1
                         /\ removed' = removed
                         /\ total_written' = total_written + Len(out_table)
                         /\ delivered' = Append(delivered, Len(b))
                         /\ i' = i + 1
                         /\ pc' = "loop"
                         /\ error' = NULL
    /\ batch' = NULL
    /\ UNCHANGED <<inputVars, accVars, requested, report, fnVars, storeVars>>

\* summarize_parquet: `for batch in scanner.to_batches()` takes the next batch
SpNext ==
    /\ prog = "sp" /\ pc = "loop"
    /\ IF i >= Len(src)
       THEN /\ pc' = "after"
            /\ UNCHANGED <<i, batch, requested>>
       ELSE /\ batch' = Some([j \in DOMAIN src[i + 1] |-> NeededCols(src[i + 1][j])])
            /\ i' = i + 1
            /\ requested' = Append(requested, total_rows)
            /\ pc' = "body"
    /\ UNCHANGED <<inputVars, accVars, writerVars, delivered, report, error, fnVars, storeVars>>

\* summarize_parquet: the loop body, from the cap test to the last histogram
SpBody ==
    /\ prog = "sp" /\ pc = "body"
    /\ IF ~IsNull(max_rows) /\ total_rows >= max_rows[1]
       THEN /\ pc' = "after"
            /\ UNCHANGED <<accVars, delivered>>
       ELSE LET b == Capped(batch[1], max_rows, total_rows)
            IN  /\ SetAcc(SpAccumulate(Acc, b))
                /\ delivered' = Append(delivered, Len(b))
                /\ pc' = "loop"
    /\ batch' = NULL
    /\ UNCHANGED <<inputVars, i, writerVars, requested, report, error, fnVars, storeVars>>

\* summarize_parquet: the syn_count entry of the summary after the loop; median
\* and quantiles are written as None and {}
SpReport ==
    /\ prog = "sp" /\ pc = "after"
    /\ report' = Some([min |-> IF DOMAIN syn_hist # {} THEN Some(SetMin(DOMAIN syn_hist))
                               ELSE NULL,
                       max |-> IF DOMAIN syn_hist # {} THEN Some(SetMax(DOMAIN syn_hist))
                               ELSE NULL,
                       median |-> NULL,
                       quantiles |-> <<>>])
    /\ pc' = "end"
    /\ UNCHANGED <<inputVars, i, batch, accVars, writerVars, requested, delivered, error,
                   fnVars, storeVars>>

Next ==
    SdNext \/ SdBody \/ SdReport \/ AggNext \/ AggBody \/ SpNext \/ SpBody \/ SpReport

Spec == Init /\ [][Next]_vars

\* summarize_data alone, with and without --out-json
NextSd == SdNext \/ SdBody \/ SdReport

SpecSd == InitSd /\ [][NextSd]_vars

RECURSIVE SdRun(_, _, _, _)
\* summarize_data's loop over the batches bs, from the accumulators a
SdRun(a, bs, cap, oj) ==
    IF bs = <<>> \/ (~IsNull(cap) /\ a.total_rows >= cap[1]) THEN a
    ELSE SdRun(SdAccumulate(a, Capped(Head(bs), cap, a.total_rows), oj), Tail(bs), cap, oj)

----------------------------------------------------------------------------
(* Runs from the first line of main(): summarize_data and the writer *)

\* the rows these runs read: one row of each of two partitions
OpenRows ==
    { MkRow(Some(1), Some(2), Some("AL"), Some(5),
            <<Some(2), Some(1), Some(1), Some(1), Some(1), Some(1)>>),
      MkRow(Some(2), Some(2), Some("MB"), Some(10),
            <<NULL, NULL, Some(1), NULL, NULL, Some(1)>>) }

\* the full schema, and every schema that lacks one column of it
Schemas == {SourceCols} \cup {SourceCols \ {c} : c \in SourceCols}

\* segments of an earlier run of some other source: one under a name this run
\* will use, one under a name it will not
OtherDataset ==
    LET row == DropPartitionCol(AddDominantRow(
                   MkRow(Some(3), Some(3), Some("AL"), Some(1),
                         <<Some(1), NULL, NULL, NULL, NULL, NULL>>)))
    IN  [path \in {<<Some("AL"), 0>>, <<Some("LH"), MaxRows + 1>>} |-> <<row>>]

\* what dataset_root may hold before the writer starts: nothing, another
\* source's segments, or all segments of an earlier run over bs
PriorDatasets(bs) == {<<>>, OtherDataset, AggRun(<<>>, bs, 0, NULL, 0, FALSE)}

\* a source to open: well-formed under any cap, lacking a column, or not there
InitSource ==
    \/ /\ path_exists = TRUE /\ schema = SourceCols
       /\ src \in Sources(OpenRows, MaxRows)
       /\ max_rows \in Caps
    \/ /\ path_exists = TRUE /\ schema \in Schemas \ {SourceCols}
       /\ src \in {ProjectSource(bs, schema) : bs \in Sources(OpenRows, MaxRows)}
       /\ max_rows = NULL
    \/ /\ path_exists = FALSE /\ schema = {}
       /\ src = <<>>
       /\ max_rows \in Caps

InitOpen ==
    /\ pc = "start"
    /\ InitSource
    /\ \/ /\ prog = "sd"
          /\ out_json \in BOOLEAN /\ drop_prob_cols = FALSE
          /\ dataset = <<>>
       \/ /\ prog = "agg"
          /\ out_json = FALSE /\ drop_prob_cols \in BOOLEAN
          /\ dataset \in (IF schema = SourceCols THEN PriorDatasets(src)
                          ELSE {<<>>, OtherDataset})
    /\ Fresh

NextOpen == SdOpen \/ SdNext \/ SdBody \/ SdReport \/ AggOpen \/ AggNext \/ AggBody

SpecOpen == InitOpen /\ [][NextOpen]_vars

RECURSIVE SpRun(_, _, _)
\* summarize_parquet's loop over the scanned batches bs, from the accumulators a
SpRun(a, bs, cap) ==
    IF bs = <<>> \/ (~IsNull(cap) /\ a.total_rows >= cap[1]) THEN a
    ELSE SpRun(SpAccumulate(a, Capped(Head(bs), cap, a.total_rows)), Tail(bs), cap)

----------------------------------------------------------------------------
(* The summary document: summarize_data.py 261-308, summarize_parquet.py 207-244 *)

RECURSIVE SortedInts(_)
\* sorted(h.keys()) for integer keys
SortedInts(S) ==
    IF S = {} THEN <<>> ELSE <<SetMin(S)>> \o SortedInts(S \ {SetMin(S)})

\* Python's order of the neuropil names of the model
NeuropilsSorted == <<"AL", "MB">>

\* Python's order of the category names: "" first, then by code point
NamesSorted ==
    <<<<>>, Str_Acetylcholine, Str_Dopamine, Str_GABA, Str_Glutamate, Str_Octopamine,
      Str_Serotonin>>

\* sorted(d.items(), key=lambda x: x[0]): the keys of S in the order of ref
SortedFrom(ref, S) == SelectSeq(ref, LAMBDA x : x \in S)

\* [{"syn_count": v, "count": c} for v, c in sorted(h.items())]
HistItems(h) ==
    LET ks == SortedInts(DOMAIN h)
    IN  [k \in DOMAIN ks |-> [syn_count |-> ks[k], count |-> h[ks[k]]]]

\* {"total_pairs": sum(h.values()), "histogram": h_items}
HistEntry(h) == [total_pairs |-> DictSum(h), histogram |-> HistItems(h)]

\* by_neuropil, as json.dump writes it (a dict's items in insertion order): the neuropils of neuropil_syn_hist sorted, then those found only
\* in neuropil_nt_syn_hist in that dict's order; each neuropil of
\* neuropil_nt_syn_hist carries its categories in the inner dict's order
ByNeuropil(a, outer, inner) ==
    LET sorted == SortedFrom(NeuropilsSorted, DOMAIN a.neuropil_syn_hist)
        extra == SelectSeq(outer, LAMBDA n : n \notin DOMAIN a.neuropil_syn_hist)
        names == sorted \o extra
        byNt(n) == [k \in DOMAIN inner[n] |->
                       <<inner[n][k], HistEntry(a.neuropil_nt_syn_hist[n][inner[n][k]])>>]
    IN  [k \in DOMAIN names |->
            <<names[k],
              [total_pairs |-> IF names[k] \in DOMAIN a.neuropil_syn_hist
                               THEN DictSum(a.neuropil_syn_hist[names[k]]) ELSE 0,
               histogram |-> IF names[k] \in DOMAIN a.neuropil_syn_hist
                             THEN HistItems(a.neuropil_syn_hist[names[k]]) ELSE <<>>,
               by_neurotransmitter |-> IF names[k] \in DOMAIN a.neuropil_nt_syn_hist
                                       THEN Some(byNt(names[k])) ELSE NULL]>>]

\* by_neurotransmitter: the categories of global_nt_syn_hist, sorted
ByNeurotransmitter(a) ==
    LET names == SortedFrom(NamesSorted, DOMAIN a.global_nt_syn_hist)
    IN  [k \in DOMAIN names |-> <<names[k], HistEntry(a.global_nt_syn_hist[names[k]])>>]

\* the histogram part of the summary, from the accumulators a and the insertion
\* order of the keys of neuropil_nt_syn_hist (outer) and of its values (inner)
Summary(a, outer, inner) ==
    [histogram |-> HistItems(a.syn_hist),
     by_neuropil |-> ByNeuropil(a, outer, inner),
     by_neurotransmitter |-> ByNeurotransmitter(a)]

\* rows with one dominant category each: two partitions, two categories
SerializeRows ==
    { MkRow(Some(1), Some(2), Some("AL"), Some(5),
            <<Some(2), Some(1), Some(1), Some(1), Some(1), Some(1)>>),
      MkRow(Some(1), Some(2), Some("AL"), Some(10),
            <<Some(1), Some(1), Some(1), Some(1), Some(1), Some(2)>>),
      MkRow(Some(2), Some(1), Some("MB"), Some(10),
            <<Some(2), NULL, NULL, NULL, NULL, Some(1)>>),
      MkRow(Some(2), Some(1), Some("MB"), Some(5),
            <<NULL, NULL, NULL, NULL, NULL, Some(1)>>) }

\* a scan of up to MaxRows of these rows, one row per batch, by either summarizer
SerializeArgs ==
    {[script |-> p, rows |-> rs]
        : p \in {"sd", "sp"}, rs \in UNION {SeqsOfLen(SerializeRows, n) : n \in 0..MaxRows}}

\* the accumulators after the scan of x
ScanOf(x) ==
    IF x.script = "sd"
    THEN SdRun(EmptyAcc, [k \in DOMAIN x.rows |-> <<x.rows[k]>>], NULL, TRUE)
    ELSE SpRun(EmptyAcc,
               [k \in DOMAIN x.rows |-> <<NeededCols(AddDominantRow(x.rows[k]))>>], NULL)

RECURSIVE AppendNew(_, _)
\* d.setdefault(k, {}) for the keys l in turn: a key not yet in the dict goes last
AppendNew(order, l) ==
    IF l = <<>> THEN order
    ELSE AppendNew(IF \E k \in DOMAIN order : order[k] = Head(l) THEN order
                   ELSE Append(order, Head(l)), Tail(l))

RECURSIVE OuterOrder(_, _)
\* the key order of neuropil_nt_syn_hist after the rows rs (each row has a
\* neuropil, a weight and one dominant category)
OuterOrder(rs, order) ==
    IF rs = <<>> THEN order
    ELSE OuterOrder(Tail(rs), AppendNew(order, <<Head(rs).neuropil[1]>>))

RECURSIVE InnerOrder(_, _, _)
\* the key order of neuropil_nt_syn_hist[n] after the rows rs
InnerOrder(rs, n, order) ==
    IF rs = <<>> THEN order
    ELSE InnerOrder(Tail(rs), n,
                    IF Head(rs).neuropil = Some(n)
                    THEN AppendNew(order, SdDominantList(Head(rs))) ELSE order)

\* the summary either script writes after the scan of x
SummaryOf(x) ==
    LET a == ScanOf(x)
    IN  Summary(a, OuterOrder(x.rows, <<>>),
                [n \in DOMAIN a.neuropil_nt_syn_hist |-> InnerOrder(x.rows, n, <<>>)])

InitSerialize ==
    /\ prog = "summary" /\ pc = "call"
    /\ arg \in SerializeArgs /\ ret = NULL
    /\ NoRun

\* the scan and the document built from its accumulators
BuildSummary ==
    /\ prog = "summary" /\ pc = "call"
    /\ ret' = Some(SummaryOf(arg))
    /\ pc' = "end"
    /\ UNCHANGED <<prog, arg, runVars, storeVars>>

SpecSerialize == InitSerialize /\ [][BuildSummary]_vars

----------------------------------------------------------------------------
(* The dominant-category resolver as a function under test *)

\* a frame of one row with any probability vector, alone or after a pool row
DominantFrames ==
    LET tested == {MkRow(Some(1), Some(2), Some("AL"), Some(5), p) : p \in ProbVectors}
    IN  {<<r>> : r \in tested} \cup {<<q, r>> : q \in RowPool, r \in tested}

InitDominant ==
    /\ prog = "add_dominant_columns" /\ pc = "call"
    /\ arg \in DominantFrames /\ ret = NULL
    /\ NoRun

\* _add_dominant_columns(df), and summarize_data's dominant_nt_list of the same rows
Resolve ==
    /\ prog = "add_dominant_columns" /\ pc = "call"
    /\ ret' = Some([df |-> add_dominant_columns(arg),
                    dominant_nt_list |-> [j \in 1..Len(arg) |-> SdDominantList(arg[j])]])
    /\ pc' = "end"
    /\ UNCHANGED <<prog, arg, runVars, storeVars>>

SpecDominant == InitDominant /\ [][Resolve]_vars

----------------------------------------------------------------------------
(* The quantile extractor as a function under test *)

\* largest histogram key
MaxKey == 3

\* largest count of one key, and most null-weight rows beside the histogram
MaxCount == 2

\* histograms as the scan builds them: every key present has a count >= 1
Hists == UNION {[K -> 1..MaxCount] : K \in SUBSET (1..MaxKey)}

\* the calls main() can make: total is total_rows, the histogram's sum plus the
\* rows whose syn_count is null
QuantileArgs ==
    {[hist |-> h, q |-> q, total |-> DictSum(h) + n]
        : h \in Hists, q \in Quantiles, n \in 0..MaxCount}

InitQuantile ==
    /\ prog = "nearest_quantile_from_hist" /\ pc = "call"
    /\ arg \in QuantileArgs /\ ret = NULL
    /\ NoRun

ApplyQuantile ==
    /\ prog = "nearest_quantile_from_hist" /\ pc = "call"
    /\ ret' = Some(nearest_quantile_from_hist(arg.hist, arg.q, arg.total))
    /\ pc' = "end"
    /\ UNCHANGED <<prog, arg, runVars, storeVars>>

SpecQuantile == InitQuantile /\ [][ApplyQuantile]_vars

\* two fractions asked of the histogram h with one total >= 1
QuantilePairArgs(h) ==
    {[hist |-> h, q1 |-> a, q2 |-> b, total |-> t]
        : a \in Quantiles, b \in Quantiles, t \in 1..(DictSum(h) + MaxCount)}

InitQuantilePair ==
    /\ prog = "nearest_quantile_from_hist twice" /\ pc = "call"
    /\ \E h \in Hists \ {<<>>} : arg \in QuantilePairArgs(h)
    /\ ret = NULL
    /\ NoRun

\* the two calls, one after the other
ApplyQuantilePair ==
    /\ prog = "nearest_quantile_from_hist twice" /\ pc = "call"
    /\ ret' = Some(<<nearest_quantile_from_hist(arg.hist, arg.q1, arg.total),
                     nearest_quantile_from_hist(arg.hist, arg.q2, arg.total)>>)
    /\ pc' = "end"
    /\ UNCHANGED <<prog, arg, runVars, storeVars>>

SpecQuantilePair == InitQuantilePair /\ [][ApplyQuantilePair]_vars

\* fractions from -1 to 2: what a caller other than main() may pass
AnyFractions == {<<k, QDen>> : k \in (0 - QDen)..(2 * QDen)}

\* the histogram h (any, the empty one included) with any fraction and any
\* total from 0 up
QuantileAnyArgs(h) ==
    {[hist |-> h, q |-> q, total |-> t]
        : q \in AnyFractions, t \in 0..(DictSum(h) + MaxCount)}

\* --quantiles after split(","): up to two parts, a blank part is null, the
\* others are the floats they spell
QuantileSpecs ==
    {<<>>} \cup {<<a>> : a \in Nullable(AnyFractions)}
           \cup {<<a, b>> : a \in Nullable(AnyFractions), b \in Nullable(AnyFractions)}

RECURSIVE ParseLoop(_, _)
\* for part in spec.split(","), then the default
ParseLoop(parts, quantiles) ==
    IF parts = <<>>
    THEN IF quantiles = <<>> THEN Return(<< <<1, 4>>, <<1, 2>>, <<3, 4>> >>)
         ELSE Return(quantiles)
    ELSE IF IsNull(Head(parts)) THEN ParseLoop(Tail(parts), quantiles)
    ELSE LET q == Head(parts)[1]
         IN  IF q[1] < 0 \/ q[1] > q[2] THEN Raise("ValueError")
             ELSE ParseLoop(Tail(parts), Append(quantiles, q))

parse_quantiles(spec) == ParseLoop(spec, <<>>)

InitQuantileAny ==
    /\ \/ prog = "nearest_quantile_from_hist" /\ \E h \in Hists : arg \in QuantileAnyArgs(h)
       \/ prog = "parse_quantiles" /\ arg \in QuantileSpecs
    /\ pc = "call" /\ ret = NULL
    /\ NoRun

ParseQuantiles ==
    /\ prog = "parse_quantiles" /\ pc = "call"
    /\ ret' = Some(parse_quantiles(arg))
    /\ pc' = "end"
    /\ UNCHANGED <<prog, arg, runVars, storeVars>>

SpecQuantileAny == InitQuantileAny /\ [][ApplyQuantile \/ ParseQuantiles]_vars

----------------------------------------------------------------------------
(* Row cap *)

\* rows scanned (summarizers) or written (aggregate)
Scanned == IF prog = "agg" THEN total_written ELSE total_rows

LoopOver == pc \in {"after", "end", "raised"}

SourceRows == Len(Flatten(src))

\* C1: for any batch sizes and any row cap M >= 0, when the scan loop of any of
\* the three scripts has terminated, the rows scanned/written are
\* min(M, b_1 + ... + b_n); every processed batch was taken whole except the one
\* that crosses the cap, which is the last one processed.
C1_CapIsMin ==
    (LoopOver /\ ~IsNull(max_rows)) =>
        /\ Scanned = (IF max_rows[1] < SourceRows THEN max_rows[1] ELSE SourceRows)
        /\ SeqSum(delivered) = Scanned
        /\ \A k \in DOMAIN delivered :
              \/ delivered[k] = Len(src[k])
              \/ /\ delivered[k] < Len(src[k])
                 /\ k = Len(delivered)
                 /\ Scanned = max_rows[1]

\* a capped run that took its first batch whole and its second batch truncated
C1_Witness ==
    /\ LoopOver /\ ~IsNull(max_rows)
    /\ Len(delivered) = 2 /\ Len(src) = 2
    /\ delivered[1] = Len(src[1])
    /\ delivered[2] < Len(src[2])

\* C2: every batch that is requested from the source is requested while the rows
\* scanned so far are strictly fewer than the cap M (with M = 0 none is requested);
\* stated for the IPC loops and for the dataset scanner loop alike.
C2_NoRequestPastCap ==
    ~IsNull(max_rows) => \A k \in DOMAIN requested : requested[k] < max_rows[1]

\* the same for the two IPC loops only (summarize_data, aggregate)
C2_IpcNoRequestPastCap ==
    (prog \in {"sd", "agg"} /\ ~IsNull(max_rows)) =>
        \A k \in DOMAIN requested : requested[k] < max_rows[1]

----------------------------------------------------------------------------
(* Order and chunking of batches *)

\* the four histograms of an accumulator record
HistsOf(a) ==
    <<a.syn_hist, a.neuropil_syn_hist, a.neuropil_nt_syn_hist, a.global_nt_syn_hist>>

\* the orders in which n batches can be taken
Perms(n) == {f \in [1..n -> 1..n] : \A x, y \in 1..n : f[x] = f[y] => x = y}

\* C3: with no row cap, summarize_data accumulating the same batches in any order
\* ends with the same global, per-partition, per-partition-per-category and global
\* per-category histograms (same keys, same counts).
C3_BatchOrderIrrelevant ==
    (prog = "sd" /\ pc = "after" /\ IsNull(max_rows)) =>
        \A f \in Perms(Len(src)) :
            HistsOf(SdRun(EmptyAcc, [k \in 1..Len(src) |-> src[f[k]]], NULL, out_json))
                = HistsOf(Acc)

\* an uncapped run over three batches whose first and last batch count different
\* weights, partitions and categories, with the nested histograms filled
C3_Witness ==
    /\ prog = "sd" /\ pc = "after" /\ IsNull(max_rows) /\ out_json
    /\ Len(src) = 3
    /\ src[1] # src[3]
    /\ Cardinality(DOMAIN syn_hist) = 2
    /\ Cardinality(DOMAIN neuropil_nt_syn_hist) = 2
    /\ \E k \in DOMAIN syn_hist : syn_hist[k] = 2

\* C4: for a fixed row sequence and any row cap, the final accumulators of
\* summarize_data (total_rows, the four histograms, the three id sets) do not
\* depend on how the rows are cut into consecutive batches: the run over any cut
\* ends as the run over the same rows in one single batch does.
C4_ChunkingIrrelevant ==
    (prog = "sd" /\ pc = "after") =>
        Acc = SdRun(EmptyAcc, <<Flatten(src)>>, max_rows, out_json)

\* a capped run over three one-row batches that stopped inside the source, having
\* counted the same weight twice
C4_Witness ==
    /\ prog = "sd" /\ pc = "after" /\ out_json
    /\ Len(src) = 3 /\ max_rows = Some(2) /\ total_rows = 2
    /\ \E k \in DOMAIN syn_hist : syn_hist[k] = 2
    /\ neuropil_nt_syn_hist # <<>>

----------------------------------------------------------------------------
(* Ties and all-null probability vectors *)

\* the DominantSet of a row as the data model defines it: the names of the
\* categories whose probability is present and is the largest present one
DominantSet(r) ==
    LET present == {k \in 1..Len(NEURO_COLS) : ~IsNull(r[NEURO_COLS[k]])}
    IN  {NEUROTRANSMITTERS[k] :
            k \in {x \in present :
                     \A y \in present : r[NEURO_COLS[y]][1] <= r[NEURO_COLS[x]][1]}}

\* count of weight w under partition p and category c, 0 when a key is missing
NtCount(d, p, c, w) ==
    IF p \in DOMAIN d /\ c \in DOMAIN d[p] /\ w \in DOMAIN d[p][c] THEN d[p][c][w] ELSE 0

\* count of weight w under category c, 0 when a key is missing
CatCount(d, c, w) == IF c \in DOMAIN d /\ w \in DOMAIN d[c] THEN d[c][w] ELSE 0

\* the source batch that the loop body is working on
CurrentSrcBatch == IF prog = "sp" THEN src[i] ELSE src[i + 1]

\* a summarizer's loop body accumulates a batch
Accumulating ==
    /\ prog \in {"sd", "sp"} /\ out_json
    /\ pc = "body" /\ pc' = "loop"

\* every key of the per-category histograms before or after the step
PartitionKeys == DOMAIN neuropil_nt_syn_hist \cup DOMAIN neuropil_nt_syn_hist'

CategoryKeys ==
    UNION {DOMAIN neuropil_nt_syn_hist[p] : p \in DOMAIN neuropil_nt_syn_hist}
    \cup UNION {DOMAIN neuropil_nt_syn_hist'[p] : p \in DOMAIN neuropil_nt_syn_hist'}
    \cup DOMAIN global_nt_syn_hist \cup DOMAIN global_nt_syn_hist'

WeightKeys ==
    UNION {DOMAIN global_nt_syn_hist[c] : c \in DOMAIN global_nt_syn_hist}
    \cup UNION {DOMAIN global_nt_syn_hist'[c] : c \in DOMAIN global_nt_syn_hist'}

\* the step scans exactly one row
ScansOneRow == Accumulating /\ delivered' = Append(delivered, 1)

\* partition label and weight present, and N >= 1 categories at the maximum
CountedOnce(r) == ~IsNull(r.neuropil) /\ ~IsNull(r.syn_count) /\ DominantSet(r) # {}

AllProbsNull(r) == \A k \in 1..Len(NEURO_COLS) : IsNull(r[NEURO_COLS[k]])

\* C6: a row whose probability values are all null has an empty dominant set and
\* adds no count to any category of the per-partition-per-category or the global
\* per-category histogram, on the direct path (summarize_data) and on the dataset
\* path (dominant_nt written by aggregate.py, read back by summarize_parquet).
C6_AllNullAddsNothing ==
    [][(Accumulating /\ \A j \in DOMAIN CurrentSrcBatch : AllProbsNull(CurrentSrcBatch[j]))
          => /\ \A j \in DOMAIN CurrentSrcBatch : DominantSet(CurrentSrcBatch[j]) = {}
             /\ neuropil_nt_syn_hist' = neuropil_nt_syn_hist
             /\ global_nt_syn_hist' = global_nt_syn_hist
      ]_vars

\* the same on the direct path only
C6_DirectPathAddsNothing ==
    [][(Accumulating /\ prog = "sd"
          /\ \A j \in DOMAIN CurrentSrcBatch : AllProbsNull(CurrentSrcBatch[j]))
          => /\ neuropil_nt_syn_hist' = neuropil_nt_syn_hist
             /\ global_nt_syn_hist' = global_nt_syn_hist
      ]_vars

----------------------------------------------------------------------------
(* The resolver's outputs *)

\* the names a persisted dominant_nt string lists
NamesIn(s) == {n \in {NEUROTRANSMITTERS[k] : k \in 1..Len(NEUROTRANSMITTERS)} :
                  \E k \in DOMAIN StrSplit(s, ",") : StrSplit(s, ",")[k] = n}

\* the probability values of a row that are present
PresentProbs(r) ==
    {r[NEURO_COLS[k]][1] : k \in {x \in 1..Len(NEURO_COLS) : ~IsNull(r[NEURO_COLS[x]])}}

\* C7: for every row, the dominant_score of _add_dominant_columns is the maximum
\* over the non-null probability values (null when there is none), and the
\* dominant set it persists is exactly the set of categories whose value is
\* non-null and equal to that maximum, hence non-empty whenever a value is
\* non-null; summarize_data's dominant_nt_list holds the same set.
C7_DominantIsArgmax ==
    (prog = "add_dominant_columns" /\ pc = "end") =>
        \A j \in DOMAIN arg :
            LET r == arg[j]
                out == ret[1].df[j]
                sd == ret[1].dominant_nt_list[j]
            IN  /\ IF PresentProbs(r) = {} THEN IsNull(out.dominant_score)
                   ELSE /\ ~IsNull(out.dominant_score)
                        /\ out.dominant_score[1] \in PresentProbs(r)
                        /\ \A v \in PresentProbs(r) : v <= out.dominant_score[1]
                /\ ~IsNull(out.dominant_nt)
                /\ NamesIn(out.dominant_nt[1]) = DominantSet(r)
                /\ {sd[k] : k \in DOMAIN sd} = DominantSet(r)
                /\ (PresentProbs(r) # {} => DominantSet(r) # {})

\* the resolver has run on the row {GABA: 2, Acetylcholine: 2, all others: 1}
\* and named exactly GABA and Acetylcholine
C7_Witness ==
    /\ prog = "add_dominant_columns" /\ pc = "end"
    /\ \E j \in DOMAIN arg :
          /\ arg[j].gaba_avg = Some(2) /\ arg[j].ach_avg = Some(2)
          /\ arg[j].glut_avg = Some(1) /\ arg[j].oct_avg = Some(1)
          /\ arg[j].ser_avg = Some(1) /\ arg[j].da_avg = Some(1)
          /\ NamesIn(ret[1].df[j].dominant_nt[1]) = {Str_GABA, Str_Acetylcholine}
          /\ ret[1].dominant_nt_list[j] = <<Str_GABA, Str_Acetylcholine>>

\* the names of the set D in the declared category order
InDeclaredOrder(D) == SelectSeq(NEUROTRANSMITTERS, LAMBDA n : n \in D)

RECURSIVE CommaJoined(_)
\* the names of l written one after the other with a comma between neighbours
CommaJoined(l) ==
    IF l = <<>> THEN <<>>
    ELSE IF Len(l) = 1 THEN l[1]
    ELSE CommaJoined(SubSeq(l, 1, Len(l) - 1)) \o <<",">> \o l[Len(l)]

\* C8: the persisted dominant_nt of a row is the comma-joined list of the names of
\* its dominant set in the declared order (GABA, Acetylcholine, Glutamate,
\* Octopamine, Serotonin, Dopamine), each name once, whatever rows come before it
\* in the frame; for an empty dominant set it is the empty string, never null.
C8_DominantNtString ==
    (prog = "add_dominant_columns" /\ pc = "end") =>
        \A j \in DOMAIN arg :
            /\ ~IsNull(ret[1].df[j].dominant_nt)
            /\ ret[1].df[j].dominant_nt[1] = CommaJoined(InDeclaredOrder(DominantSet(arg[j])))
            /\ (DominantSet(arg[j]) = {} => ret[1].df[j].dominant_nt = Some(<<>>))

\* a frame whose first row has no probability at all and whose second row ties
\* Acetylcholine with Dopamine: "" and "Acetylcholine,Dopamine"
C8_Witness ==
    /\ prog = "add_dominant_columns" /\ pc = "end"
    /\ Len(arg) = 2
    /\ DominantSet(arg[1]) = {}
    /\ ret[1].df[1].dominant_nt = Some(<<>>)
    /\ DominantSet(arg[2]) = {Str_Acetylcholine, Str_Dopamine}
    /\ ret[1].df[2].dominant_nt = Some(Str_Acetylcholine \o <<",">> \o Str_Dopamine)

----------------------------------------------------------------------------
(* Quantiles *)

\* number of observations of h that are <= k
CumCount(h, k) == SumOver(h, {x \in DOMAIN h : x <= k})

\* nearest-rank quantile of a non-empty histogram h with total = the sum of its
\* counts: the smallest key whose cumulative count minus 1 reaches
\* round(q * (total - 1))
NearestRank(h, q) ==
    LET targetIndex == PyRound(q[1] * (DictSum(h) - 1), q[2])
    IN  SetMin({k \in DOMAIN h : CumCount(h, k) - 1 >= targetIndex})

\* C9: the median and every requested quantile that summarize_data reports for the
\* global weight histogram are the nearest-rank quantiles of that histogram taken
\* with total = sum of its counts, for every scanned input, rows with a null
\* weight included.
C9_ReportedQuantiles ==
    (prog = "sd" /\ pc = "end" /\ DOMAIN syn_hist # {}) =>
        /\ report[1].median = Some(NearestRank(syn_hist, <<1, 2>>))
        /\ \A q \in Quantiles : report[1].quantiles[q] = NearestRank(syn_hist, q)

\* the same for the runs that scanned no row with a null weight
C9_ReportedQuantilesNoNullWeight ==
    (prog = "sd" /\ pc = "end" /\ DOMAIN syn_hist # {} /\ total_rows = DictSum(syn_hist)) =>
        /\ report[1].median = Some(NearestRank(syn_hist, <<1, 2>>))
        /\ \A q \in Quantiles : report[1].quantiles[q] = NearestRank(syn_hist, q)

\* C10: for every non-empty histogram h, _nearest_quantile_from_hist returns the
\* minimum key of h for q = 0 and the maximum key of h for q = 1, and whatever q
\* is, the value it returns is a key of h.
C10_QuantileBoundary ==
    (prog = "nearest_quantile_from_hist" /\ pc = "end" /\ DOMAIN arg.hist # {}) =>
        /\ Returned(ret[1])
        /\ ret[1].value \in DOMAIN arg.hist
        /\ (arg.q[1] = 0 => ret[1].value = SetMin(DOMAIN arg.hist))
        /\ (arg.q[1] = arg.q[2] => ret[1].value = SetMax(DOMAIN arg.hist))

\* q = 1 on a histogram of three keys whose largest key is counted twice
C10_Witness ==
    /\ prog = "nearest_quantile_from_hist" /\ pc = "end"
    /\ Cardinality(DOMAIN arg.hist) = 3
    /\ arg.q[1] = arg.q[2]
    /\ arg.hist[SetMax(DOMAIN arg.hist)] = 2
    /\ ret = Some(Return(SetMax(DOMAIN arg.hist)))

----------------------------------------------------------------------------
(* Quantile monotonicity *)

FracLeq(a, b) == a[1] * b[2] <= b[1] * a[2]

\* C11: for a fixed non-empty histogram h and a fixed total,
\* _nearest_quantile_from_hist is monotone in q: whenever q1 <= q2 in [0,1],
\* both calls return and quantile(h, q1) <= quantile(h, q2).
C11_QuantileMonotone ==
    (prog = "nearest_quantile_from_hist twice" /\ pc = "end" /\ FracLeq(arg.q1, arg.q2)) =>
        /\ Returned(ret[1][1]) /\ Returned(ret[1][2])
        /\ ret[1][1].value <= ret[1][2].value

\* two fractions that land on different keys
C11_Witness ==
    /\ prog = "nearest_quantile_from_hist twice" /\ pc = "end"
    /\ FracLeq(arg.q1, arg.q2) /\ arg.q1 # arg.q2
    /\ arg.total = DictSum(arg.hist)
    /\ Returned(ret[1][1]) /\ Returned(ret[1][2])
    /\ ret[1][1].value < ret[1][2].value

----------------------------------------------------------------------------
(* Quantile arguments *)

OutOfRange(q) == q[1] < 0 \/ q[1] > q[2]

C12_EmptyHistRaises ==
    (prog = "nearest_quantile_from_hist" /\ pc = "end" /\ DOMAIN arg.hist = {}) =>
        ret[1] = Raise("ValueError")

\* the command line: _parse_quantiles raises on any part outside [0,1], so main()
\* never passes such a fraction on
C12_ParseRejectsOutOfRange ==
    (prog = "parse_quantiles" /\ pc = "end") =>
        IF \E k \in DOMAIN arg : ~IsNull(arg[k]) /\ OutOfRange(arg[k][1])
        THEN ret[1] = Raise("ValueError")
        ELSE /\ Returned(ret[1])
             /\ \A k \in DOMAIN ret[1].value : ~OutOfRange(ret[1].value[k])

----------------------------------------------------------------------------
(* The partitioned writer *)

\* the k-th batch the writer processed, as it was handed to write_to_dataset
WrittenBatch(k) == OutTable(Slice(src[k], delivered[k]), drop_prob_cols)

\* the rows of table t whose partition value is v, as a segment stores them
SegmentRows(t, v) ==
    LET part == SelectSeq(t, LAMBDA r : r.neuropil = v)
    IN  [j \in DOMAIN part |-> DropPartitionCol(part[j])]

\* C13: whatever the dataset root contains before a run, once the writer has
\* got past its start the dataset holds only segments written by this run (so the
\* old dataset is gone before the first new segment), and after the run it is
\* exactly what the run writes into an empty root: no file of an earlier run
\* remains, and a second run over the same source leaves one copy of each row.
C13_OnlyThisRunsSegments ==
    (prog = "agg" /\ pc # "start" /\ path_exists) =>
        /\ \A path \in DOMAIN dataset :
              /\ path[2] \in 0..(Len(delivered) - 1)
              /\ \E j \in DOMAIN WrittenBatch(path[2] + 1) :
                    WrittenBatch(path[2] + 1)[j].neuropil = path[1]
              /\ dataset[path] = SegmentRows(WrittenBatch(path[2] + 1), path[1])
        /\ (pc \in {"after", "end"} /\ NeuroColSet \cup {"neuropil"} \subseteq schema) =>
              dataset = AggRun(<<>>, src, 0, max_rows, 0, drop_prob_cols)

\* a finished run that removed a segment whose name it did not write again
C13_Witness ==
    /\ prog = "agg" /\ pc = "after"
    /\ dataset # <<>>
    /\ \E path \in removed : path \notin DOMAIN dataset
    /\ \E path \in removed : path \in DOMAIN dataset

\* reading a partition directory back: the partition column comes from its name
ReadSegment(path) ==
    [j \in DOMAIN dataset[path] |-> dataset[path][j] @@ [neuropil |-> path[1]]]

CountIn(rows, x) == Cardinality({j \in DOMAIN rows : rows[j] = x})

RECURSIVE ReadBack(_)
\* all rows of the segments P, segment after segment in no particular order
ReadBack(P) ==
    IF P = {} THEN <<>>
    ELSE LET path == CHOOSE y \in P : TRUE
         IN  ReadSegment(path) \o ReadBack(P \ {path})

\* the rows the writer has scanned so far, with their dominant columns
ScannedByWriter ==
    OutTable(Flatten([k \in DOMAIN delivered |-> Slice(src[k], delivered[k])]),
             drop_prob_cols)

\* C14: every row the partitioned writer scans, a row with a null neuropil
\* included, is in exactly one segment: reading all segments of all partition
\* directories back gives exactly the multiset of the scanned rows.
C14_NoRowLostOrDuplicated ==
    (prog = "agg" /\ pc \in {"loop", "after", "end"}) =>
        LET scanned == ScannedByWriter
            read == ReadBack(DOMAIN dataset)
        IN  /\ Len(read) = Len(scanned)
            /\ \A j \in DOMAIN scanned : CountIn(read, scanned[j]) = CountIn(scanned, scanned[j])
            /\ total_written = Len(scanned)

\* a finished run of several batches that wrote a null-partition row and the
\* same row twice
C14_Witness ==
    /\ prog = "agg" /\ pc = "after" /\ Len(delivered) >= 2
    /\ \E path \in DOMAIN dataset : path[1] = NULL
    /\ \E j \in DOMAIN ScannedByWriter : CountIn(ScannedByWriter, ScannedByWriter[j]) = 2

\* C15: within one writer run the file index of successive batch writes is
\* 0, 1, 2, ..., one more after every written batch; every write creates segments
\* under names no earlier write used, and leaves every earlier segment as it was.
C15_FileIndexIncreasing ==
    [][(prog = "agg" /\ pc = "body" /\ pc' = "loop") =>
          /\ file_index = Len(delivered)
          /\ file_index' = file_index + 1
          /\ DOMAIN dataset' # DOMAIN dataset
          /\ \A path \in DOMAIN dataset' \ DOMAIN dataset : path[2] = file_index
          /\ \A path \in DOMAIN dataset :
                /\ path[2] < file_index
                /\ path \in DOMAIN dataset'
                /\ dataset'[path] = dataset[path]]_vars

\* three writes, two of them into the same partition directory
C15_Witness ==
    /\ prog = "agg" /\ file_index = 3
    /\ \E v \in Nullable({"AL", "MB"}) :
          Cardinality({path \in DOMAIN dataset : path[1] = v}) >= 2

----------------------------------------------------------------------------
(* Errors at open *)

\* C16: when the input path does not exist, the run fails with a not-found
\* error before any batch is requested from the source (and the writer has not
\* touched the dataset root).
C16_NotFoundBeforeAnyBatch ==
    (prog \in {"sd", "agg"} /\ ~path_exists /\ pc # "start") =>
        /\ pc = "raised" /\ error = Some("FileNotFoundError")
        /\ requested = <<>> /\ i = 0 /\ batch = NULL
        /\ removed = {} /\ report = NULL

\* both scripts, stopped on a missing path
C16_Witness ==
    /\ prog \in {"sd", "agg"} /\ ~path_exists
    /\ pc = "raised" /\ error = Some("FileNotFoundError")
    /\ ~IsNull(max_rows)

\* C17: when the source lacks a required column (an endpoint id, the partition
\* label, the weight, or any declared probability column), the run fails with a
\* schema error at open time, before any batch is read; for summarize_data and
\* for the writer, and also for a source of zero batches.
C17_SchemaErrorAtOpen ==
    (/\ prog \in {"sd", "agg"} /\ path_exists
     /\ ~(SourceCols \subseteq schema) /\ pc # "start") =>
        /\ pc = "raised" /\ ~IsNull(error)
        /\ requested = <<>>

\* what summarize_data does instead: a missing id, label or weight column stops
\* it with KeyError in the body of the first batch, after that batch was read
C17_SdRaisesInFirstBatch ==
    (/\ prog = "sd" /\ path_exists /\ src # <<>>
     /\ ~({"pre_pt_root_id", "post_pt_root_id", "neuropil", "syn_count"} \subseteq schema)
     /\ pc \in {"after", "end", "raised"}) =>
        /\ pc = "raised" /\ error = Some("KeyError")
        /\ Len(requested) = 1

----------------------------------------------------------------------------
(* Serialization *)

\* a histogram list in strictly ascending key order, one entry per key of h
AscendingItemsOf(items, h) ==
    /\ \A k \in 1..(Len(items) - 1) : items[k].syn_count < items[k + 1].syn_count
    /\ {items[k].syn_count : k \in DOMAIN items} = DOMAIN h
    /\ \A k \in DOMAIN items : items[k].count = h[items[k].syn_count]

\* every histogram list of the document doc is the ascending list of its
\* accumulator in a
AllListsAscending(doc, a) ==
    /\ AscendingItemsOf(doc.histogram, a.syn_hist)
    /\ \A k \in DOMAIN doc.by_neuropil :
          LET n == doc.by_neuropil[k][1]
              e == doc.by_neuropil[k][2]
          IN  /\ AscendingItemsOf(e.histogram, a.neuropil_syn_hist[n])
              /\ IsNull(e.by_neurotransmitter) \/
                    \A j \in DOMAIN e.by_neurotransmitter[1] :
                       AscendingItemsOf(e.by_neurotransmitter[1][j][2].histogram,
                          a.neuropil_nt_syn_hist[n][e.by_neurotransmitter[1][j][1]])
    /\ \A k \in DOMAIN doc.by_neurotransmitter :
          AscendingItemsOf(doc.by_neurotransmitter[k][2].histogram,
                           a.global_nt_syn_hist[doc.by_neurotransmitter[k][1]])

\* C18: the serialized summary depends only on accumulator contents: every
\* histogram list is emitted in strictly ascending key order with one entry per
\* key, and two accumulator states that are equal as mappings but were filled in
\* a different order serialize to the same document, the order of partition and
\* category names at every nesting level included.
C18_SummaryDependsOnContentsOnly ==
    (prog = "summary" /\ pc = "end") =>
        /\ AllListsAscending(ret[1], ScanOf(arg))
        /\ \A x \in SerializeArgs :
              (x.script = arg.script /\ ScanOf(x) = ScanOf(arg)) => SummaryOf(x) = ret[1]

\* the first half alone: the histogram lists are ascending, one entry per key
C18_HistogramListsAscending ==
    (prog = "summary" /\ pc = "end") => AllListsAscending(ret[1], ScanOf(arg))

\* the names that are sorted: by_neuropil and the global by_neurotransmitter do
\* not depend on the insertion order
C18_SortedLevelsAgree ==
    (prog = "summary" /\ pc = "end") =>
        \A x \in SerializeArgs :
            (x.script = arg.script /\ ScanOf(x) = ScanOf(arg)) =>
                /\ SummaryOf(x).histogram = ret[1].histogram
                /\ SummaryOf(x).by_neurotransmitter = ret[1].by_neurotransmitter
                /\ [k \in DOMAIN SummaryOf(x).by_neuropil |-> SummaryOf(x).by_neuropil[k][1]]
                     = [k \in DOMAIN ret[1].by_neuropil |-> ret[1].by_neuropil[k][1]]

----------------------------------------------------------------------------
(* The syn_count entry of the summary *)

\* C19: whenever the scan counted at least one non-null weight, the summary
\* built by a summarizer (summarize_data and summarize_parquet) carries min, max
\* and a median that are keys of the global histogram, and one quantile entry
\* for every requested quantile fraction.
C19_SummaryHasQuantiles ==
    (prog \in {"sd", "sp"} /\ pc = "end" /\ DOMAIN syn_hist # {}) =>
        /\ ~IsNull(report)
        /\ ~IsNull(report[1].min) /\ report[1].min[1] \in DOMAIN syn_hist
        /\ ~IsNull(report[1].max) /\ report[1].max[1] \in DOMAIN syn_hist
        /\ ~IsNull(report[1].median) /\ report[1].median[1] \in DOMAIN syn_hist
        /\ DOMAIN report[1].quantiles = Quantiles
        /\ \A q \in Quantiles : report[1].quantiles[q] \in DOMAIN syn_hist

\* summarize_data alone does carry them
C19_DirectSummaryHasQuantiles ==
    (prog = "sd" /\ pc = "end" /\ DOMAIN syn_hist # {}) =>
        /\ ~IsNull(report)
        /\ report[1].min = Some(SetMin(DOMAIN syn_hist))
        /\ report[1].max = Some(SetMax(DOMAIN syn_hist))
        /\ ~IsNull(report[1].median) /\ report[1].median[1] \in DOMAIN syn_hist
        /\ DOMAIN report[1].quantiles = Quantiles
        /\ \A q \in Quantiles : report[1].quantiles[q] \in DOMAIN syn_hist

----------------------------------------------------------------------------
(* The two summaries of one source *)

\* the source rows a written dataset came from: its rows without the columns
\* the writer added
RowsWritten == [j \in DOMAIN Flatten(src) |-> Project(Flatten(src)[j], SourceCols)]

\* what summarize_data --out-json accumulates over these rows, uncapped
DirectScan == SdRun(EmptyAcc, <<RowsWritten>>, NULL, TRUE)

SameSummaries(a, b) ==
    /\ a.total_rows = b.total_rows
    /\ Cardinality(a.pre_ids) = Cardinality(b.pre_ids)
    /\ Cardinality(a.post_ids) = Cardinality(b.post_ids)
    /\ Cardinality(a.pre_ids \cup a.post_ids) = Cardinality(b.pre_ids \cup b.post_ids)
    /\ Cardinality(a.neuropils) = Cardinality(b.neuropils)
    /\ a.syn_hist = b.syn_hist
    /\ a.neuropil_syn_hist = b.neuropil_syn_hist
    /\ a.neuropil_nt_syn_hist = b.neuropil_nt_syn_hist
    /\ a.global_nt_syn_hist = b.global_nt_syn_hist

\* C20: for the same source rows and no row cap, the summary summarize_parquet
\* computes from the dataset written by aggregate.py has the same total_rows,
\* unique counts, global histogram, per-neuropil histograms, per-neuropil-per-
\* neurotransmitter histograms and global per-neurotransmitter histograms as the
\* summary summarize_data computes directly from the source.
C20_DatasetSummaryEqualsDirect ==
    (prog = "sp" /\ pc \in {"after", "end"} /\ IsNull(max_rows)) =>
        SameSummaries(Acc, DirectScan)

\* the two agree on every source without a row whose probabilities are all null
C20_EqualWithoutAllNullRows ==
    (/\ prog = "sp" /\ pc \in {"after", "end"} /\ IsNull(max_rows)
     /\ \A j \in DOMAIN RowsWritten : ~AllProbsNull(RowsWritten[j])) =>
        SameSummaries(Acc, DirectScan)

\* and always on everything but the two per-neurotransmitter histograms
C20_EqualButForCategories ==
    (prog = "sp" /\ pc \in {"after", "end"} /\ IsNull(max_rows)) =>
        SameSummaries([Acc EXCEPT !.neuropil_nt_syn_hist = <<>>, !.global_nt_syn_hist = <<>>],
                      [DirectScan EXCEPT !.neuropil_nt_syn_hist = <<>>,
                                         !.global_nt_syn_hist = <<>>])

----------------------------------------------------------------------------
(* Unique ids *)

\* the batches processed so far, as they were after slicing
ProcessedBatches == [k \in DOMAIN delivered |-> Slice(src[k], delivered[k])]

\* the distinct non-null values of column col in rows
DistinctNonNull(rows, col) ==
    {rows[j][col][1] : j \in {x \in DOMAIN rows : ~IsNull(rows[x][col])}}

\* C21: observing identifiers is idempotent: after any sequence of batches each
\* tracked set (pre, post, neuropil) holds exactly the distinct non-null values
\* seen, and scanning the same batches a second time leaves every cardinality
\* and the cardinality of pre-union-post unchanged.
C21_IdsIdempotent ==
    (prog = "sd" /\ pc \in {"loop", "after", "end"}) =>
        LET rows == Flatten(ProcessedBatches)
            \* the same batches scanned once more (the id sets are updated the
            \* same way with and without --out-json)
            again == SdRun(Acc, ProcessedBatches, NULL, FALSE)
        IN  /\ pre_ids = DistinctNonNull(rows, "pre_pt_root_id")
            /\ post_ids = DistinctNonNull(rows, "post_pt_root_id")
            /\ neuropils = DistinctNonNull(rows, "neuropil")
            /\ Cardinality(again.pre_ids) = Cardinality(pre_ids)
            /\ Cardinality(again.post_ids) = Cardinality(post_ids)
            /\ Cardinality(again.neuropils) = Cardinality(neuropils)
            /\ Cardinality(again.pre_ids \cup again.post_ids)
                  = Cardinality(pre_ids \cup post_ids)
            /\ again.total_rows = 2 * total_rows

\* a finished scan of several batches that saw an id twice and a null id
C21_Witness ==
    /\ prog = "sd" /\ pc = "end" /\ Len(delivered) >= 2
    /\ Cardinality(pre_ids) < Len(Flatten(ProcessedBatches))
    /\ Cardinality(pre_ids) >= 2
    /\ \E j \in DOMAIN Flatten(ProcessedBatches) :
          IsNull(Flatten(ProcessedBatches)[j].post_pt_root_id)
    /\ \E j \in DOMAIN Flatten(ProcessedBatches) :
          IsNull(Flatten(ProcessedBatches)[j].pre_pt_root_id)

----------------------------------------------------------------------------
(* The graph store, as the statements of graph_query.py and etl.py use it *)

UPPER ==
    <<"A","B","C","D","E","F","G","H","I","J","K","L","M",
      "N","O","P","Q","R","S","T","U","V","W","X","Y","Z">>

LOWER ==
    <<"a","b","c","d","e","f","g","h","i","j","k","l","m",
      "n","o","p","q","r","s","t","u","v","w","x","y","z">>

\* Cypher toLower
ToLower(s) ==
    [j \in DOMAIN s |->
        IF \E u \in 1..26 : UPPER[u] = s[j]
        THEN LOWER[CHOOSE u \in 1..26 : UPPER[u] = s[j]]
        ELSE s[j]]

\* Cypher `s CONTAINS sub`
Contains(s, sub) ==
    \E j \in 0..(Len(s) - Len(sub)) : SubSeq(s, j + 1, j + Len(sub)) = sub

\* the characters of a partition label
Chars(label) ==
    CASE label = "AL" -> <<"A","L">>
      [] label = "MB" -> <<"M","B">>
      [] label = "LH" -> <<"L","H">>

\* coalesce(x, '') of a nullable string property
Coalesce(x) == IF IsNull(x) THEN <<>> ELSE x[1]

\* a :CONNECTS_TO relationship between the nodes with root_id pre and post
Rel(pre, post, np, syn, nt) ==
    [pre |-> pre, post |-> post, neuropil |-> np, syn_count |-> syn,
     dominant_nt |-> nt]

\* the WHERE clause on one relationship: r.syn_count >= $threshold and the two
\* optional filters; a comparison with a null property is not true
RelPasses(r, a) ==
    /\ ~IsNull(r.syn_count) /\ r.syn_count[1] >= a.threshold
    /\ \/ IsNull(a.neuropil)
       \/ ToLower(IF IsNull(r.neuropil) THEN <<>> ELSE Chars(r.neuropil[1]))
             = ToLower(a.neuropil[1])
    /\ \/ IsNull(a.neurotransmitter)
       \/ Contains(ToLower(Coalesce(r.dominant_nt)), ToLower(a.neurotransmitter[1]))

\* one hop from node: <<relationship, node at its other end>>; dir is "out" for
\* (node)-[]->(), "in" for (node)<-[]-(), "any" for (node)-[]-()
Steps(rels, node, dir) ==
    {<<j, rels[j].post>> : j \in {x \in DOMAIN rels : dir # "in" /\ rels[x].pre = node}}
    \cup
    {<<j, rels[j].pre>> : j \in {x \in DOMAIN rels : dir # "out" /\ rels[x].post = node}}

RECURSIVE Trails(_, _, _, _, _)
\* the matches of a variable-length pattern *1..n from node: <<relationships in
\* order, end node>>, no relationship used twice in one path
Trails(rels, node, used, n, dir) ==
    IF n <= 0 THEN {}
    ELSE UNION { {<< <<s[1]>>, s[2] >>}
                 \cup {<< <<s[1]>> \o t[1], t[2] >> :
                          t \in Trails(rels, s[2], used \cup {s[1]}, n - 1, dir)}
                 : s \in {x \in Steps(rels, node, dir) : x[1] \notin used} }

\* the matches whose relationships all pass the WHERE clause
FilteredTrails(rels, a, dir) ==
    {t \in Trails(rels, a.root_id, {}, a.k, dir) :
        \A j \in DOMAIN t[1] : RelPasses(rels[t[1][j]], a)}

\* a statement handed to session.run; depth is the bound of its variable-length
\* pattern (null when it has none), as_param whether it travels as $k
Statement(text, depth, as_param) ==
    [text |-> text, depth |-> depth, as_param |-> as_param]

----------------------------------------------------------------------------
(* src/app/graph_query.py and app/graph_query.py: k-hop traversals.  Each    *)
(* operator gives the statements the call sends and how the call ends.       *)

\* src.app.graph_query.get_k_hop_downstream
get_k_hop_downstream(rels, a) ==
    IF a.k < 1 THEN [sent |-> <<>>, out |-> Raise("ValueError")]
    ELSE [sent |-> <<Statement("k_hop_downstream", Some(a.k), FALSE)>>,
          out |-> Return({t[1] : t \in FilteredTrails(rels, a, "out")})]

\* src.app.graph_query.get_k_hop_upstream
get_k_hop_upstream(rels, a) ==
    IF a.k < 1 THEN [sent |-> <<>>, out |-> Raise("ValueError")]
    ELSE [sent |-> <<Statement("k_hop_upstream", Some(a.k), FALSE)>>,
          out |-> Return({t[1] : t \in FilteredTrails(rels, a, "in")})]

\* src.app.graph_query.get_k_hop_circuit
get_k_hop_circuit(rels, a) ==
    IF a.k < 1 \/ a.k > 5 THEN [sent |-> <<>>, out |-> Raise("ValueError")]
    ELSE LET node_ids == {t[2] : t \in FilteredTrails(rels, a, "any")}
             ids == node_ids \cup {a.root_id}
             InCircuit(r) == r.pre \in ids /\ r.post \in ids /\ RelPasses(r, a)
         IN  IF node_ids = {}
             THEN [sent |-> <<Statement("circuit_nodes", Some(a.k), FALSE)>>,
                   out |-> Return([circuits |-> <<>>])]
             ELSE [sent |-> <<Statement("circuit_nodes", Some(a.k), FALSE),
                              Statement("circuit_edges", NULL, FALSE)>>,
                   out |-> Return([circuits |->
                              <<[connections |-> SelectSeq(rels, InCircuit)]>>])]

\* app.graph_query.get_k_hop_downstream: the statement keeps *1..$k and k goes
\* along as a parameter; the store does not accept a parameter there
app_get_k_hop_downstream(rels, a) ==
    [sent |-> <<Statement("k_hop_downstream", Some(a.k), TRUE)>>,
     out |-> Raise("CypherSyntaxError")]

\* app.graph_query.get_k_hop_upstream
app_get_k_hop_upstream(rels, a) ==
    [sent |-> <<Statement("k_hop_upstream", Some(a.k), TRUE)>>,
     out |-> Raise("CypherSyntaxError")]

\* app.graph_query.get_k_hop_circuit: no filters, and root_id is not added
app_get_k_hop_circuit(rels, a) ==
    IF a.k < 1 \/ a.k > 5 THEN [sent |-> <<>>, out |-> Raise("ValueError")]
    ELSE LET node_ids == {t[2] : t \in Trails(rels, a.root_id, {}, a.k, "any")}
             Among(r) == r.pre \in node_ids /\ r.post \in node_ids
         IN  IF node_ids = {}
             THEN [sent |-> <<Statement("circuit_nodes", Some(a.k), FALSE)>>,
                   out |-> Return([nodes |-> {}, edges |-> <<>>])]
             ELSE [sent |-> <<Statement("circuit_nodes", Some(a.k), FALSE),
                              Statement("circuit_edges", NULL, FALSE)>>,
                   out |-> Return([nodes |-> node_ids,
                                   edges |-> SelectSeq(rels, Among)])]

\* the relationships a store may hold when a traversal is asked for
StoredRels ==
    << Rel(1, 2, Some("AL"), Some(5), Some(Str_GABA)),
       Rel(2, 3, Some("MB"), Some(10), Some(Str_GABA \o <<",">> \o Str_Dopamine)),
       Rel(3, 1, Some("AL"), Some(10), NULL),
       Rel(2, 2, NULL, NULL, Some(Str_Dopamine)) >>

\* the traversal depths asked for: below, inside and above 1..5
Depths == (0 - 1)..6

\* the arguments of a traversal
TraversalArgs ==
    [root_id : 1..3, k : Depths, threshold : {0, 6},
     neurotransmitter : {NULL, Some(<<"g","a","b","a">>)},
     neuropil : {NULL, Some(<<"a","l">>)}]

InitGraphQuery ==
    /\ prog \in {"src.app.get_k_hop_downstream", "src.app.get_k_hop_upstream",
                 "src.app.get_k_hop_circuit", "app.get_k_hop_downstream",
                 "app.get_k_hop_upstream", "app.get_k_hop_circuit"}
    /\ pc = "call"
    /\ arg \in TraversalArgs
    /\ ret = NULL
    /\ \E n \in 0..Len(StoredRels) :
          /\ connects_to = SubSeq(StoredRels, 1, n)
          /\ neurons = IF n = 0 THEN <<>> ELSE IF n = 1 THEN <<1, 2>> ELSE <<1, 2, 3>>
    /\ summaries = <<>> /\ queries = <<>>
    /\ NoScan

\* how a call ends: its statements are in the store's log, its outcome in ret
Answer(r) ==
    /\ queries' = queries \o r.sent
    /\ ret' = Some(r.out)
    /\ pc' = IF Returned(r.out) THEN "end" ELSE "raised"
    /\ UNCHANGED <<prog, arg, runVars, neurons, connects_to, summaries>>

KHopDownstream ==
    /\ prog = "src.app.get_k_hop_downstream" /\ pc = "call"
    /\ Answer(get_k_hop_downstream(connects_to, arg))

KHopUpstream ==
    /\ prog = "src.app.get_k_hop_upstream" /\ pc = "call"
    /\ Answer(get_k_hop_upstream(connects_to, arg))

KHopCircuit ==
    /\ prog = "src.app.get_k_hop_circuit" /\ pc = "call"
    /\ Answer(get_k_hop_circuit(connects_to, arg))

AppKHopDownstream ==
    /\ prog = "app.get_k_hop_downstream" /\ pc = "call"
    /\ Answer(app_get_k_hop_downstream(connects_to, arg))

AppKHopUpstream ==
    /\ prog = "app.get_k_hop_upstream" /\ pc = "call"
    /\ Answer(app_get_k_hop_upstream(connects_to, arg))

AppKHopCircuit ==
    /\ prog = "app.get_k_hop_circuit" /\ pc = "call"
    /\ Answer(app_get_k_hop_circuit(connects_to, arg))

NextGraphQuery ==
    \/ KHopDownstream \/ KHopUpstream \/ KHopCircuit
    \/ AppKHopDownstream \/ AppKHopUpstream \/ AppKHopCircuit

SpecGraphQuery == InitGraphQuery /\ [][NextGraphQuery]_vars

\* C22: every k-hop traversal rejects a depth k < 1 with an error before any
\* statement is sent: a call with k < 1 ends in ValueError having sent nothing,
\* and no statement whose depth is below 1 is ever in the store's log.
C22_DepthCheckedBeforeQuery ==
    /\ \A j \in DOMAIN queries :
          ~IsNull(queries[j].depth) => queries[j].depth[1] >= 1
    /\ (pc # "call" /\ arg.k < 1) =>
          /\ ret = Some(Raise("ValueError"))
          /\ queries = <<>>

\* the traversals of src/app (the ones the API serves) do check the depth first
C22_CurrentModuleChecksDepth ==
    (prog \in {"src.app.get_k_hop_downstream", "src.app.get_k_hop_upstream",
               "src.app.get_k_hop_circuit"}
     /\ pc # "call" /\ arg.k < 1) =>
        /\ ret = Some(Raise("ValueError"))
        /\ queries = <<>>

\* a traversal that went through: a two-hop path was found
C22_TraversalDone ==
    /\ prog = "src.app.get_k_hop_downstream" /\ pc = "end"
    /\ \E t \in ret[1].value : Len(t) = 2

----------------------------------------------------------------------------
(* JSON: the objects json.load gives, and the text json.dumps writes.  A     *)
(* dict keeps its items in insertion order as <<key, value>> pairs.          *)

JNull == [t |-> "null", v |-> 0]

JInt(n) == [t |-> "int", v |-> n]

JStr(s) == [t |-> "str", v |-> s]

JList(l) == [t |-> "list", v |-> l]

JDict(items) == [t |-> "dict", v |-> items]

\* a punctuation token of JSON text
Tok(c) == [t |-> c, v |-> 0]

RECURSIVE Dumps(_)
RECURSIVE DumpItems(_)
RECURSIVE DumpElements(_)
\* json.dumps(x, ensure_ascii=False), as tokens
Dumps(x) ==
    CASE x.t = "dict" -> <<Tok("{")>> \o DumpItems(x.v) \o <<Tok("}")>>
      [] x.t = "list" -> <<Tok("[")>> \o DumpElements(x.v) \o <<Tok("]")>>
      [] OTHER -> <<x>>

DumpItems(items) ==
    IF items = <<>> THEN <<>>
    ELSE <<JStr(Head(items)[1]), Tok(":")>> \o Dumps(Head(items)[2])
         \o (IF Len(items) = 1 THEN <<>> ELSE <<Tok(",")>> \o DumpItems(Tail(items)))

DumpElements(l) ==
    IF l = <<>> THEN <<>>
    ELSE Dumps(Head(l))
         \o (IF Len(l) = 1 THEN <<>> ELSE <<Tok(",")>> \o DumpElements(Tail(l)))

\* d[key] = value on a dict's items: a key already there keeps its place
Put(items, key, value) ==
    IF \E j \in DOMAIN items : items[j][1] = key
    THEN [j \in DOMAIN items |-> IF items[j][1] = key THEN <<key, value>> ELSE items[j]]
    ELSE Append(items, <<key, value>>)

RECURSIVE ParseValue(_)
RECURSIVE ParseMembers(_, _)
RECURSIVE ParseElements(_, _)
\* the JSON decoder on well-formed text: <<value read, tokens left>>
ParseValue(toks) ==
    CASE Head(toks).t = "{" -> ParseMembers(Tail(toks), <<>>)
      [] Head(toks).t = "[" -> ParseElements(Tail(toks), <<>>)
      [] OTHER -> <<Head(toks), Tail(toks)>>

\* the members of an object, after "{" or ","
ParseMembers(toks, items) ==
    IF Head(toks).t = "}" THEN <<JDict(items), Tail(toks)>>
    ELSE LET key == Head(toks).v
             pv == ParseValue(SubSeq(toks, 3, Len(toks)))
             now == Put(items, key, pv[1])
         IN  IF Head(pv[2]).t = ","
             THEN ParseMembers(Tail(pv[2]), now)
             ELSE <<JDict(now), Tail(pv[2])>>

\* the elements of an array, after "[" or ","
ParseElements(toks, l) ==
    IF Head(toks).t = "]" THEN <<JList(l), Tail(toks)>>
    ELSE LET pv == ParseValue(toks)
             now == Append(l, pv[1])
         IN  IF Head(pv[2]).t = ","
             THEN ParseElements(Tail(pv[2]), now)
             ELSE <<JList(now), Tail(pv[2])>>

\* json.loads(text) / json.load(f)
Loads(toks) == ParseValue(toks)[1]

\* d.get(key): the value, or None
Get(d, key) ==
    IF \E j \in DOMAIN d.v : d.v[j][1] = key
    THEN d.v[CHOOSE j \in DOMAIN d.v : d.v[j][1] = key][2]
    ELSE JNull

\* bool(x) of a JSON object
Truthy(x) ==
    CASE x.t = "null" -> FALSE
      [] x.t = "int" -> x.v # 0
      [] x.t = "str" -> x.v # ""
      [] OTHER -> x.v # <<>>

----------------------------------------------------------------------------
(* src/app/aggregates_to_neo4j.py and dashboard.py *)

\* _safe_int(x) for None and for int (the documents here hold nothing else in
\* these places)
safe_int(x) == IF x.t = "int" THEN Some(x.v) ELSE NULL

\* int(x) if isinstance(x, (int, float)) else None
IntOrNone(x) == IF x.t = "int" THEN Some(x.v) ELSE NULL

\* the params of the MERGE statement
SummaryParams(dataset_id, summary) ==
    LET uniq == IF Truthy(Get(summary, "unique")) THEN Get(summary, "unique")
                ELSE JDict(<<>>)
        syn == IF Truthy(Get(summary, "syn_count")) THEN Get(summary, "syn_count")
               ELSE JDict(<<>>)
    IN  [id |-> dataset_id,
         summary_json |-> Dumps(summary),
         input |-> Get(summary, "input"),
         total_rows |-> IntOrNone(Get(summary, "total_rows")),
         max_rows |-> IntOrNone(Get(summary, "max_rows")),
         pre_pt_root_id |-> safe_int(Get(uniq, "pre_pt_root_id")),
         post_pt_root_id |-> safe_int(Get(uniq, "post_pt_root_id")),
         neuron_ids_union |-> safe_int(Get(uniq, "neuron_ids_union")),
         neuropil |-> safe_int(Get(uniq, "neuropil")),
         syn_min |-> safe_int(Get(syn, "min")),
         syn_max |-> safe_int(Get(syn, "max")),
         syn_median |-> safe_int(Get(syn, "median"))]

\* uniq.get / syn.get on something that is not a dict
NotADict(summary) ==
    \E key \in {"unique", "syn_count"} :
        Truthy(Get(summary, key)) /\ Get(summary, key).t # "dict"

\* MATCH (s:DatasetSummary {id: $id}) DETACH DELETE s
DetachDelete(nodes, id) ==
    LET Other(s) == s.id # id IN SelectSeq(nodes, Other)

\* a MERGE that leaves the properties of a node it matched as they were
MergeSet_OnCreateOnly(nodes, params, now) ==
    IF \E j \in DOMAIN nodes : nodes[j].id = params.id THEN nodes
    ELSE Append(nodes, params @@ [updated_at |-> now])

\* MERGE (s:DatasetSummary {id: $id}) SET s.summary_json = ..., s.updated_at =
\* datetime(): every node matched gets the properties, none matched creates one
MergeSet(nodes, params, now) ==
    IF \E j \in DOMAIN nodes : nodes[j].id = params.id
    THEN [j \in DOMAIN nodes |->
             IF nodes[j].id = params.id THEN params @@ [updated_at |-> now]
             ELSE nodes[j]]
    ELSE Append(nodes, params @@ [updated_at |-> now])

\* CREATE CONSTRAINT ... REQUIRE s.id IS UNIQUE fails on nodes that share an id
UniqueIds(nodes) ==
    \A j, k \in DOMAIN nodes : nodes[j].id = nodes[k].id => j = k

\* push_summary_json_to_neo4j: the statements sent, the nodes afterwards, the
\* outcome; file is the text at summary_json_path
push_summary_json_to_neo4j(nodes, sent_before, file, dataset_id, clear_existing) ==
    LET summary == Loads(file)
        cleared == IF clear_existing THEN DetachDelete(nodes, dataset_id) ELSE nodes
        deletes == IF clear_existing
                   THEN <<[text |-> "delete_summary", depth |-> NULL, id |-> dataset_id]>>
                   ELSE <<>>
        constraint == <<[text |-> "create_constraint", depth |-> NULL]>>
        params == SummaryParams(dataset_id, summary)
        merge == <<[text |-> "merge_summary", depth |-> NULL, id |-> dataset_id,
                    summary_json |-> params.summary_json]>>
    IN  IF NotADict(summary)
        THEN [sent |-> <<>>, nodes |-> nodes, out |-> Raise("AttributeError")]
        ELSE IF ~UniqueIds(cleared)
        THEN [sent |-> deletes \o constraint, nodes |-> cleared,
              out |-> Raise("ClientError")]
        ELSE [sent |-> deletes \o constraint \o merge,
              nodes |-> MergeSet(cleared, params,
                                 sent_before + Len(deletes) + 2),
              out |-> Return(NULL)]

\* fetch_summary_json_from_neo4j: the parsed document (nullable)
fetch_summary_json_from_neo4j(nodes, dataset_id) ==
    LET Match(s) == s.id = dataset_id
        recs == SelectSeq(nodes, Match)
    IN  IF recs = <<>> THEN NULL
        ELSE IF recs[1].summary_json = <<>> THEN NULL
        ELSE Some(Loads(recs[1].summary_json))

\* dashboard.dataset_summary() under the module's SUMMARY_SOURCE and
\* SUMMARY_DATASET_ID; file is the text at SUMMARY_JSON_PATH (nullable)
dataset_summary(nodes, SUMMARY_SOURCE, SUMMARY_DATASET_ID, file) ==
    IF SUMMARY_SOURCE \in {"neo4j", "db"}
    THEN LET data == fetch_summary_json_from_neo4j(nodes, SUMMARY_DATASET_ID)
         IN  IF IsNull(data) THEN Raise("HTTPException 404") ELSE Return(data[1])
    ELSE IF IsNull(file) THEN Raise("HTTPException 404")
    ELSE Return(Loads(file[1]))

\* test.py expected_summary
TestSummary ==
    JDict(<< <<"input", JStr("pytest")>>, <<"max_rows", JInt(1)>>,
             <<"total_rows", JInt(1)>>, <<"unique", JDict(<<>>)>>,
             <<"syn_count", JDict(<<>>)>> >>)

\* a document as summarize_data.py writes it (two of its lists cut short)
ScanSummary ==
    JDict(<< <<"input", JStr("connections.feather")>>, <<"max_rows", JNull>>,
             <<"total_rows", JInt(3)>>,
             <<"neurotransmitters", JList(<<JStr("GABA"), JStr("Dopamine")>>)>>,
             <<"unique", JDict(<< <<"pre_pt_root_id", JInt(2)>>,
                                  <<"post_pt_root_id", JInt(2)>>,
                                  <<"neuron_ids_union", JInt(3)>>,
                                  <<"neuropil", JInt(2)>> >>)>>,
             <<"syn_count",
               JDict(<< <<"min", JInt(5)>>, <<"max", JInt(10)>>, <<"median", JInt(5)>>,
                        <<"quantiles", JDict(<< <<"0.5", JInt(5)>> >>)>>,
                        <<"histogram",
                          JList(<< JDict(<< <<"syn_count", JInt(5)>>,
                                            <<"count", JInt(2)>> >>),
                                   JDict(<< <<"syn_count", JInt(10)>>,
                                            <<"count", JInt(1)>> >>) >>)>> >>)>>,
             <<"by_neuropil", JDict(<<>>)>>,
             <<"by_neurotransmitter", JDict(<<>>)>> >>)

\* a document of an empty scan: nothing counted, min/max/median null
EmptyScanSummary ==
    JDict(<< <<"input", JStr("connections.feather")>>, <<"max_rows", JInt(0)>>,
             <<"total_rows", JInt(0)>>,
             <<"unique", JDict(<< <<"pre_pt_root_id", JInt(0)>> >>)>>,
             <<"syn_count", JDict(<< <<"min", JNull>>, <<"histogram", JList(<<>>)>> >>)>> >>)

\* a file that is JSON but no summary: "unique" is a number
NoSummary == JDict(<< <<"unique", JInt(5)>> >>)

SummaryDocs == {TestSummary, ScanSummary, EmptyScanSummary}

\* dataset ids: the default and the test's
DatasetIds == {"flywire", "pytest-dashboard-summary"}

SummaryCalls ==
    {"src.app", "push_summary_json_to_neo4j", "fetch_summary_json_from_neo4j",
     "dataset_summary", "delete_summary"}

InitSummary ==
    /\ prog = "src.app" /\ pc = "start"
    /\ arg = NULL /\ ret = NULL
    /\ NoRun

\* one call of push_summary_json_to_neo4j on a file holding the document s
PushSummary ==
    /\ prog \in SummaryCalls /\ Len(queries) < MaxStatements
    /\ \E s \in SummaryDocs \cup {NoSummary}, d \in DatasetIds, c \in BOOLEAN :
          LET r == push_summary_json_to_neo4j(summaries, Len(queries), Dumps(s), d, c)
          IN  /\ prog' = "push_summary_json_to_neo4j"
              /\ arg' = Some([summary |-> s, dataset_id |-> d, clear_existing |-> c])
              /\ summaries' = r.nodes
              /\ queries' = queries \o r.sent
              /\ ret' = Some(r.out)
              /\ pc' = IF Returned(r.out) THEN "end" ELSE "raised"
    /\ UNCHANGED <<runVars, neurons, connects_to>>

\* one call of fetch_summary_json_from_neo4j
FetchSummary ==
    /\ prog \in SummaryCalls /\ Len(queries) < MaxStatements
    /\ \E d \in DatasetIds :
          /\ prog' = "fetch_summary_json_from_neo4j"
          /\ arg' = Some([dataset_id |-> d])
          /\ queries' = Append(queries, [text |-> "match_summary", depth |-> NULL,
                                         id |-> d])
          /\ ret' = Some(Return(fetch_summary_json_from_neo4j(summaries, d)))
          /\ pc' = "end"
    /\ UNCHANGED <<runVars, neurons, connects_to, summaries>>

\* one call of dataset_summary()
DatasetSummary ==
    /\ prog \in SummaryCalls /\ Len(queries) < MaxStatements
    /\ \E source \in {"neo4j", "db", "file"}, d \in DatasetIds,
          file \in {NULL, Some(Dumps(TestSummary))} :
          LET out == dataset_summary(summaries, source, d, file)
          IN  /\ prog' = "dataset_summary"
              /\ arg' = Some([SUMMARY_SOURCE |-> source, dataset_id |-> d,
                              file |-> file])
              /\ queries' = IF source \in {"neo4j", "db"}
                            THEN Append(queries, [text |-> "match_summary",
                                                  depth |-> NULL, id |-> d])
                            ELSE queries
              /\ ret' = Some(out)
              /\ pc' = IF Returned(out) THEN "end" ELSE "raised"
    /\ UNCHANGED <<runVars, neurons, connects_to, summaries>>

\* test.py: the test removes its node when it is done
DeleteSummary ==
    /\ prog \in SummaryCalls /\ Len(queries) < MaxStatements
    /\ prog' = "delete_summary"
    /\ arg' = Some([dataset_id |-> "pytest-dashboard-summary"])
    /\ summaries' = DetachDelete(summaries, "pytest-dashboard-summary")
    /\ queries' = Append(queries, [text |-> "delete_summary", depth |-> NULL,
                                   id |-> "pytest-dashboard-summary"])
    /\ ret' = Some(Return(NULL))
    /\ pc' = "end"
    /\ UNCHANGED <<runVars, neurons, connects_to>>

NextSummary == PushSummary \/ FetchSummary \/ DatasetSummary \/ DeleteSummary

SpecSummary == InitSummary /\ [][NextSummary]_vars

\* the statements about the :DatasetSummary node d, in the order sent
AboutSummary(d) ==
    LET About(q) == q.text \in {"merge_summary", "delete_summary"} /\ q.id = d
    IN  SelectSeq(queries, About)

\* the JSON text the store should hold for d: that of the last push under d,
\* unless the node was deleted since
LatestPushed(d) ==
    LET a == AboutSummary(d)
    IN  IF a = <<>> \/ a[Len(a)].text = "delete_summary" THEN NULL
        ELSE Some(a[Len(a)].summary_json)

\* C23: after push_summary_json_to_neo4j has stored the document s under d,
\* fetch_summary_json_from_neo4j(d) and dataset_summary() with the Neo4j source
\* give a document equal to s; for every id the store answers with the document
\* most recently pushed under that id, whatever was pushed under other ids.
C23_SummaryRoundTrip ==
    /\ (prog = "push_summary_json_to_neo4j" /\ pc = "end") =>
          /\ fetch_summary_json_from_neo4j(summaries, arg[1].dataset_id)
                = Some(arg[1].summary)
          /\ LatestPushed(arg[1].dataset_id) = Some(Dumps(arg[1].summary))
    /\ \A d \in DatasetIds :
          LET latest == LatestPushed(d)
              got == fetch_summary_json_from_neo4j(summaries, d)
          IN  IF IsNull(latest)
              THEN /\ got = NULL
                   /\ dataset_summary(summaries, "neo4j", d, NULL)
                         = Raise("HTTPException 404")
              ELSE /\ ~IsNull(got)
                   /\ Dumps(got[1]) = latest[1]
                   /\ \A source \in {"neo4j", "db"} :
                         dataset_summary(summaries, source, d, NULL) = Return(got[1])
    /\ (prog = "fetch_summary_json_from_neo4j" /\ pc = "end") =>
          ret = Some(Return(fetch_summary_json_from_neo4j(summaries, arg[1].dataset_id)))

\* a second, different document pushed under an id that already had one, with
\* another id's document in the store
C23_Witness ==
    /\ prog = "push_summary_json_to_neo4j" /\ pc = "end"
    /\ arg[1].summary = ScanSummary
    /\ LET a == AboutSummary(arg[1].dataset_id)
       IN  /\ Len(a) = 2
           /\ a[1].text = "merge_summary" /\ a[2].text = "merge_summary"
           /\ a[1].summary_json # a[2].summary_json

\* a push under one id with another id's document already there
C23_OtherIdKept ==
    /\ prog = "push_summary_json_to_neo4j" /\ pc = "end"
    /\ Len(summaries) = 2
    /\ summaries[1].summary_json # summaries[2].summary_json

----------------------------------------------------------------------------
(* app/etl.py: load_connections_arrow and _insert_batch *)

\* MERGE (n:Neuron {root_id: id}) for a non-null id
MergeNode(nodes, id) ==
    IF \E j \in DOMAIN nodes : nodes[j] = id THEN nodes ELSE Append(nodes, id)

\* the properties SET gives the relationship of a row
RowRel(r) ==
    [pre |-> r.pre_pt_root_id[1], post |-> r.post_pt_root_id[1],
     neuropil |-> r.neuropil, syn_count |-> r.syn_count, dominant_nt |-> NULL,
     gaba_avg |-> r.gaba_avg, ach_avg |-> r.ach_avg, glut_avg |-> r.glut_avg,
     oct_avg |-> r.oct_avg, ser_avg |-> r.ser_avg, da_avg |-> r.da_avg]

\* whether a relationship is the one MERGE (pre)-[c:CONNECTS_TO {neuropil}]->(post)
\* matches for the row
SameRel(c, r) ==
    /\ c.pre = r.pre_pt_root_id[1] /\ c.post = r.post_pt_root_id[1]
    /\ c.neuropil = r.neuropil

\* MERGE (pre)-[c:CONNECTS_TO {neuropil: row.neuropil}]->(post) SET c.syn_count = ...
MergeRel(rels, r) ==
    IF \E j \in DOMAIN rels : SameRel(rels[j], r)
    THEN [j \in DOMAIN rels |-> IF SameRel(rels[j], r) THEN RowRel(r) ELSE rels[j]]
    ELSE Append(rels, RowRel(r))

\* MERGE does not take a null property value: the statement fails on such a row
NullMergeKey(r) ==
    IsNull(r.pre_pt_root_id) \/ IsNull(r.post_pt_root_id) \/ IsNull(r.neuropil)

RECURSIVE Unwind(_, _)
\* UNWIND $rows AS row MERGE ... : the store [nodes, rels] after the rows, or
\* [failed] when a row stops the statement
Unwind(g, rows) ==
    IF rows = <<>> THEN g
    ELSE IF NullMergeKey(Head(rows)) THEN [failed |-> TRUE]
    ELSE Unwind([nodes |-> MergeNode(MergeNode(g.nodes, Head(rows).pre_pt_root_id[1]),
                                     Head(rows).post_pt_root_id[1]),
                 rels |-> MergeRel(g.rels, Head(rows))],
                Tail(rows))

\* _insert_batch: one statement in its own transaction, all of it or nothing
insert_batch(g, rows) ==
    LET after == Unwind(g, rows)
    IN  IF "failed" \in DOMAIN after THEN g @@ [failed |-> TRUE] ELSE after

\* expected_cols
ExpectedCols ==
    {"pre_pt_root_id", "post_pt_root_id", "neuropil", "syn_count",
     "gaba_avg", "ach_avg", "glut_avg", "oct_avg", "ser_avg", "da_avg"}

\* total_use, and the rows df.to_dicts() gives
TotalUse ==
    LET total == Len(Flatten(src))
    IN  IF IsNull(max_rows) THEN total
        ELSE IF max_rows[1] < total THEN max_rows[1] ELSE total

LoadedRows == SubSeq(Flatten(src), 1, TotalUse)

\* the rows the loader is run on: a pair repeated with another weight, a second
\* pair, a null partition label, a null endpoint
LoadPool ==
    { MkRow(Some(1), Some(2), Some("AL"), Some(5),
            <<Some(2), Some(1), Some(1), Some(1), Some(1), Some(1)>>),
      MkRow(Some(1), Some(2), Some("AL"), Some(10),
            <<Some(2), Some(2), Some(1), NULL, Some(1), Some(1)>>),
      MkRow(Some(2), Some(2), Some("MB"), Some(10),
            <<NULL, NULL, Some(1), NULL, NULL, Some(1)>>),
      MkRow(Some(1), Some(2), NULL, Some(10),
            <<Some(1), Some(1), Some(1), Some(1), Some(1), Some(1)>>),
      MkRow(NULL, Some(3), Some("MB"), Some(5),
            <<NULL, NULL, NULL, NULL, NULL, Some(2)>>) }

\* a graph left by an earlier load
PriorGraph ==
    insert_batch([nodes |-> <<>>, rels |-> <<>>],
                 <<MkRow(Some(3), Some(1), Some("LH"), Some(1),
                         <<Some(1), NULL, NULL, NULL, NULL, NULL>>)>>)

InitLoad ==
    /\ prog = "load_connections_arrow" /\ pc = "start"
    /\ \/ /\ path_exists = TRUE /\ schema = SourceCols
          /\ \E n \in 0..MaxRows : \E rows \in SeqsOfLen(LoadPool, n) : src = <<rows>>
          /\ max_rows \in Caps
       \/ /\ path_exists = TRUE /\ schema = SourceCols \ {"syn_count"}
          /\ src \in {ProjectSource(<<<<r>>>>, SourceCols \ {"syn_count"}) : r \in LoadPool}
          /\ max_rows = NULL
       \/ /\ path_exists = FALSE /\ schema = {} /\ src = <<>> /\ max_rows = NULL
    /\ arg \in [batch_size : 0..MaxRows, clear_graph : BOOLEAN]
    /\ \E g \in {[nodes |-> <<>>, rels |-> <<>>], PriorGraph} :
          neurons = g.nodes /\ connects_to = g.rels
    /\ summaries = <<>> /\ queries = <<>>
    /\ out_json = FALSE /\ drop_prob_cols = FALSE
    /\ dataset = <<>>
    /\ i = 0 /\ batch = NULL /\ total_rows = 0
    /\ pre_ids = {} /\ post_ids = {} /\ neuropils = {}
    /\ syn_hist = <<>> /\ neuropil_syn_hist = <<>>
    /\ neuropil_nt_syn_hist = <<>> /\ global_nt_syn_hist = <<>>
    /\ total_written = 0 /\ file_index = 0 /\ removed = {}
    /\ requested = <<>> /\ delivered = <<>> /\ report = NULL /\ error = NULL
    /\ ret = NULL

\* load_connections_arrow down to the loop: read, slice, check the columns,
\* clear the graph, build range(0, total_use, batch_size)
LoadOpen ==
    /\ prog = "load_connections_arrow" /\ pc = "start"
    /\ IF ~FileFound(path_exists)
       THEN /\ pc' = "raised" /\ error' = Some("FileNotFoundError")
            /\ UNCHANGED storeVars
       ELSE IF ~(ExpectedCols \subseteq schema)
       THEN /\ pc' = "raised" /\ error' = Some("ValueError")
            /\ UNCHANGED storeVars
       ELSE /\ IF arg.clear_graph
               THEN /\ neurons' = <<>> /\ connects_to' = <<>> /\ summaries' = <<>>
                    /\ queries' = Append(queries, [text |-> "delete_all", depth |-> NULL])
               ELSE UNCHANGED storeVars
            /\ IF arg.batch_size = 0
               THEN pc' = "raised" /\ error' = Some("ValueError")
               ELSE /\ pc' = IF TotalUse > 0 THEN "loop" ELSE "end"
                    /\ error' = NULL
    /\ UNCHANGED <<inputVars, i, batch, accVars, writerVars, requested, delivered,
                   report, fnVars>>

\* one turn of the loop: chunk = rows[start:end], _insert_batch(driver, chunk)
LoadInsert ==
    /\ prog = "load_connections_arrow" /\ pc = "loop"
    /\ LET start == i * arg.batch_size
           end == IF start + arg.batch_size < TotalUse THEN start + arg.batch_size
                  ELSE TotalUse
           chunk == SubSeq(LoadedRows, start + 1, end)
           after == insert_batch([nodes |-> neurons, rels |-> connects_to], chunk)
       IN  /\ queries' = Append(queries, [text |-> "insert_batch", depth |-> NULL,
                                          rows |-> chunk])
           /\ IF "failed" \in DOMAIN after
              THEN /\ pc' = "raised" /\ error' = Some("ClientError")
                   /\ UNCHANGED <<i, neurons, connects_to>>
              ELSE /\ neurons' = after.nodes /\ connects_to' = after.rels
                   /\ i' = i + 1
                   /\ pc' = IF end < TotalUse THEN "loop" ELSE "end"
                   /\ error' = NULL
    /\ UNCHANGED <<inputVars, batch, accVars, writerVars, requested, delivered,
                   report, fnVars, summaries>>

NextLoad == LoadOpen \/ LoadInsert

SpecLoad == InitLoad /\ [][NextLoad]_vars

\* the rows the insert statements carried, in the order sent
InsertedRows ==
    LET IsInsert(q) == q.text = "insert_batch"
        ins == SelectSeq(queries, IsInsert)
    IN  Flatten([j \in DOMAIN ins |-> ins[j].rows])

\* the endpoint ids of the rows
EndpointIds(rows) ==
    DistinctNonNull(rows, "pre_pt_root_id") \cup DistinctNonNull(rows, "post_pt_root_id")

\* the (pre, post, neuropil) of the rows
Triples(rows) ==
    {<<rows[j].pre_pt_root_id, rows[j].post_pt_root_id, rows[j].neuropil>> :
        j \in DOMAIN rows}

\* exactly one node per endpoint id of rows, exactly one relationship per triple
GraphIsExactly(rows) ==
    /\ \A id \in EndpointIds(rows) :
          Cardinality({j \in DOMAIN neurons : neurons[j] = id}) = 1
    /\ \A j \in DOMAIN neurons : neurons[j] \in EndpointIds(rows)
    /\ \A tr \in Triples(rows) :
          Cardinality({j \in DOMAIN connects_to :
                          <<Some(connects_to[j].pre), Some(connects_to[j].post),
                            connects_to[j].neuropil>> = tr}) = 1
    /\ \A j \in DOMAIN connects_to :
          <<Some(connects_to[j].pre), Some(connects_to[j].post),
            connects_to[j].neuropil>> \in Triples(rows)
    /\ (rows # <<>>) => (Len(neurons) > 0 /\ Len(connects_to) > 0)

\* the load is over (it returned or raised) on a source it could read, with
\* clear_graph=True and a batch size that cuts
LoadOver ==
    /\ prog = "load_connections_arrow" /\ pc \in {"end", "raised"}
    /\ path_exists /\ ExpectedCols \subseteq schema
    /\ arg.clear_graph /\ arg.batch_size >= 1

\* C24: after load_connections_arrow with clear_graph=True on a source whose
\* first min(total, max_rows) rows are R, the graph holds exactly one Neuron
\* node per distinct endpoint id in R and exactly one CONNECTS_TO relationship
\* per distinct (pre, post, neuropil) in R, whatever the batch size and however
\* often a row repeats; every row of R went out in exactly one batch, and both
\* counts are positive when R is not empty.
C24_GraphMatchesRows ==
    LoadOver => (GraphIsExactly(LoadedRows) /\ InsertedRows = LoadedRows)

\* the same for sources whose rows have both endpoints and a partition label
C24_GraphMatchesRowsWithoutNulls ==
    (LoadOver /\ \A j \in DOMAIN LoadedRows : ~NullMergeKey(LoadedRows[j])) =>
        (pc = "end" /\ GraphIsExactly(LoadedRows) /\ InsertedRows = LoadedRows)

\* a load of three rows in two batches with a repeated pair
C24_LoadDone ==
    /\ LoadOver /\ pc = "end" /\ i = 2 /\ Len(LoadedRows) = 3
    /\ Len(connects_to) = 2

\* a load stopped by a row without a partition label, after a batch that went in
C24_LoadStopped ==
    /\ LoadOver /\ pc = "raised" /\ i = 1
    /\ Len(connects_to) > 0

----------------------------------------------------------------------------
(* One batch at a time *)

\* C25: the scan of the writer and of the summarizer is strictly sequential: a
\* batch is in flight only inside the loop body and there is never more than
\* one; the batch requested is the one after the batches processed so far, so
\* batches go in ascending index order, each at most once; and when batch i+1
\* is requested, batches 1..i are completely processed (every accumulator
\* updated, every segment written).
C25_OneBatchAtATime ==
    (prog \in {"sd", "agg"}) =>
        /\ IsNull(batch) <=> pc # "body"
        /\ Len(delivered) = i
        /\ Len(requested) \in {i, i + 1}
        /\ (pc = "body") =>
              /\ Len(requested) = i + 1
              /\ batch = Some(src[i + 1])
              /\ IF prog = "sd"
                 THEN Acc = SdRun(EmptyAcc, ProcessedBatches, NULL, out_json)
                 ELSE /\ dataset = AggRun(<<>>, ProcessedBatches, 0, NULL, 0,
                                          drop_prob_cols)
                      /\ file_index = i
                      /\ total_written = SeqSum(delivered)

\* the writer asks for its third batch with two segments written
C25_Witness ==
    /\ prog = "agg" /\ pc = "body" /\ i = 2
    /\ src[1] # src[2] /\ src[2] # src[3]
    /\ dataset # <<>>

\* the summarizer asks for its third batch with two batches counted
C25_WitnessSummarizer ==
    /\ prog = "sd" /\ pc = "body" /\ i = 2
    /\ total_rows = 2

----------------------------------------------------------------------------
(* Histogram totals *)

\* the rows scanned so far that have a weight
Weighted(rows) == {j \in DOMAIN rows : ~IsNull(rows[j].syn_count)}

\* those of them with the partition label p
WeightedIn(rows, p) == {j \in Weighted(rows) : rows[j].neuropil = Some(p)}

\* C26: after every batch of the summarizer's scan, the counts of the global
\* weight histogram add up to the number of rows scanned so far whose weight is
\* non-null (so to at most total_rows), every stored count is >= 1, and the
\* total_pairs of each partition is the number of scanned rows with that label
\* and a non-null weight.
C26_HistogramTotals ==
    (prog = "sd" /\ pc \in {"loop", "after", "end"}) =>
        LET rows == Flatten(ProcessedBatches)
            labels == {rows[j].neuropil[1] :
                          j \in {x \in Weighted(rows) : ~IsNull(rows[x].neuropil)}}
        IN  /\ DictSum(syn_hist) = Cardinality(Weighted(rows))
            /\ DictSum(syn_hist) <= total_rows
            /\ \A w \in DOMAIN syn_hist : syn_hist[w] >= 1
            /\ out_json =>
                  /\ DOMAIN neuropil_syn_hist = labels
                  /\ \A p \in labels :
                        /\ DictSum(neuropil_syn_hist[p])
                              = Cardinality(WeightedIn(rows, p))
                        /\ \A w \in DOMAIN neuropil_syn_hist[p] :
                              neuropil_syn_hist[p][w] >= 1

\* two batches counted: a weight seen twice in one partition, a row without weight
C26_Witness ==
    /\ prog = "sd" /\ pc = "loop" /\ out_json /\ Len(delivered) = 2
    /\ \E w \in DOMAIN syn_hist : syn_hist[w] >= 2
    /\ DictSum(syn_hist) < total_rows
    /\ \E p \in DOMAIN neuropil_syn_hist : DictSum(neuropil_syn_hist[p]) >= 2

----------------------------------------------------------------------------
(* Accumulators only grow *)

\* h2 has every key of h1, with a count at least as large
HistLeq(h1, h2) ==
    /\ DOMAIN h1 \subseteq DOMAIN h2
    /\ \A k \in DOMAIN h1 : h1[k] <= h2[k]

NestedLeq(d1, d2) ==
    /\ DOMAIN d1 \subseteq DOMAIN d2
    /\ \A a \in DOMAIN d1 : HistLeq(d1[a], d2[a])

Nested2Leq(d1, d2) ==
    /\ DOMAIN d1 \subseteq DOMAIN d2
    /\ \A a \in DOMAIN d1 : NestedLeq(d1[a], d2[a])

\* C27: the summarizer's accumulators only grow: in every step every histogram
\* count at every nesting level is >= its previous value, no key is removed,
\* each id set contains its previous value and total_rows does not decrease;
\* once the scan loop has ended no accumulator changes.
C27_AccumulatorsGrow ==
    [][(prog = "sd") =>
          /\ total_rows' >= total_rows
          /\ pre_ids \subseteq pre_ids'
          /\ post_ids \subseteq post_ids'
          /\ neuropils \subseteq neuropils'
          /\ HistLeq(syn_hist, syn_hist')
          /\ NestedLeq(neuropil_syn_hist, neuropil_syn_hist')
          /\ Nested2Leq(neuropil_nt_syn_hist, neuropil_nt_syn_hist')
          /\ NestedLeq(global_nt_syn_hist, global_nt_syn_hist')
          /\ (pc \in {"after", "end", "raised"}) => UNCHANGED accVars]_vars

\* a scan of two batches that each raised the same counts, read after the loop
C27_Witness ==
    /\ prog = "sd" /\ pc = "end" /\ out_json /\ Len(delivered) = 2
    /\ delivered[1] >= 1 /\ delivered[2] >= 1
    /\ \E w \in DOMAIN syn_hist : syn_hist[w] >= 2
    /\ \E a \in DOMAIN global_nt_syn_hist :
          \E w \in DOMAIN global_nt_syn_hist[a] : global_nt_syn_hist[a][w] >= 2
    /\ Cardinality(DOMAIN syn_hist) >= 2

----------------------------------------------------------------------------
(* Nesting levels agree *)

\* C28: in summarize_data, after every batch, every partition label of the
\* per-partition-per-category histogram is a label of the per-partition
\* histogram, and for every partition p, category c and weight w the count
\* [p][c][w] is at most the per-partition count [p][w]; so the serializer never
\* has to create the empty container for a partition without histogram.
C28_NestedWithinPartition ==
    (prog = "sd" /\ pc \in {"loop", "after", "end"}) =>
        /\ DOMAIN neuropil_nt_syn_hist \subseteq DOMAIN neuropil_syn_hist
        /\ \A p \in DOMAIN neuropil_nt_syn_hist :
              \A c \in DOMAIN neuropil_nt_syn_hist[p] :
                 \A w \in DOMAIN neuropil_nt_syn_hist[p][c] :
                    /\ w \in DOMAIN neuropil_syn_hist[p]
                    /\ neuropil_nt_syn_hist[p][c][w] <= neuropil_syn_hist[p][w]
        /\ LET by_neuropil == ByNeuropil(Acc, SortedFrom(NeuropilsSorted,
                                                        DOMAIN neuropil_nt_syn_hist),
                                         [n \in DOMAIN neuropil_nt_syn_hist |-> <<>>])
           IN  \A k \in DOMAIN by_neuropil :
                  by_neuropil[k][1] \in DOMAIN neuropil_syn_hist

\* a partition with two rows of one weight and one category, and a row of the
\* partition that has no category at all
C28_Witness ==
    /\ prog = "sd" /\ pc = "loop" /\ out_json /\ Len(delivered) >= 1
    /\ \E p \in DOMAIN neuropil_nt_syn_hist :
          /\ \E c \in DOMAIN neuropil_nt_syn_hist[p] :
                \E w \in DOMAIN neuropil_nt_syn_hist[p][c] :
                   neuropil_nt_syn_hist[p][c][w] = 2
          /\ \E w \in DOMAIN neuropil_syn_hist[p] :
                \A c \in DOMAIN neuropil_nt_syn_hist[p] :
                   w \notin DOMAIN neuropil_nt_syn_hist[p][c]

----------------------------------------------------------------------------
(* Global and nested per-category histograms, in both summarizers *)

\* rows of one weight: a category dominant in two partitions, a tie, a row
\* without partition label, a row without probabilities
NestedPool ==
    { MkRow(Some(1), Some(2), Some("AL"), Some(10),
            <<NULL, Some(1), NULL, NULL, NULL, Some(2)>>),
      MkRow(Some(2), Some(2), Some("MB"), Some(10),
            <<NULL, NULL, Some(1), NULL, NULL, Some(1)>>),
      MkRow(NULL, Some(3), NULL, Some(10),
            <<Some(1), Some(1), Some(1), Some(1), Some(1), Some(1)>>),
      MkRow(Some(1), NULL, Some("AL"), Some(10),
            <<NULL, NULL, NULL, NULL, NULL, NULL>>) }

\* the same rows as a dataset written by aggregate.py, a batch per directory
NestedDatasetSources ==
    {[k \in DOMAIN bs |-> add_dominant_columns(bs[k])]
        : bs \in {x \in Sources(NestedPool, MaxRows) :
                     \A k \in DOMAIN x : \A j \in DOMAIN x[k] :
                         x[k][j].neuropil = x[k][1].neuropil}}

\* both summarizers on these rows, each writing its JSON summary
InitNested ==
    /\ pc = "loop" /\ path_exists = TRUE
    /\ \/ /\ prog = "sd" /\ schema = SourceCols
          /\ src \in Sources(NestedPool, MaxRows)
       \/ /\ prog = "sp" /\ schema = DatasetCols
          /\ src \in NestedDatasetSources
    /\ max_rows \in Caps
    /\ out_json = TRUE /\ drop_prob_cols = FALSE
    /\ Idle

NextNested == SdNext \/ SdBody \/ SdReport \/ SpNext \/ SpBody \/ SpReport

SpecNested == InitNested /\ [][NextNested]_vars

\* the categories a row is counted under: none without partition label or
\* weight; summarize_data resolves them from the probabilities,
\* summarize_parquet splits the persisted dominant_nt
CategoryEntries(r) ==
    IF IsNull(r.neuropil) \/ IsNull(r.syn_count) THEN 0
    ELSE IF prog = "sd" THEN Cardinality(DominantSet(r))
    ELSE IF IsNull(r.dominant_nt) THEN 0
    ELSE Len(StrSplit(r.dominant_nt[1], ","))

\* sum of all counts of a category -> weight -> count histogram
NestedTotal(d) == SumOver([c \in DOMAIN d |-> DictSum(d[c])], DOMAIN d)

\* C29: in both summarizers, after every batch, the global per-category
\* histogram is the key-wise sum over the partitions of the
\* per-partition-per-category histograms: global[c][w] is the sum over p of
\* nested[p][c][w], no nested key is missing from the global histogram, and a
\* row with a null partition label is counted in neither.
C29_GlobalIsSumOfPartitions ==
    (prog \in {"sd", "sp"} /\ pc \in {"loop", "after", "end"}) =>
        /\ \A c \in DOMAIN global_nt_syn_hist :
              \A w \in DOMAIN global_nt_syn_hist[c] :
                 global_nt_syn_hist[c][w]
                    = SumOver([p \in DOMAIN neuropil_nt_syn_hist |->
                                  NtCount(neuropil_nt_syn_hist, p, c, w)],
                              DOMAIN neuropil_nt_syn_hist)
        /\ \A p \in DOMAIN neuropil_nt_syn_hist :
              \A c \in DOMAIN neuropil_nt_syn_hist[p] :
                 /\ c \in DOMAIN global_nt_syn_hist
                 /\ DOMAIN neuropil_nt_syn_hist[p][c] \subseteq DOMAIN global_nt_syn_hist[c]
        /\ LET rows == Flatten(ProcessedBatches)
           IN  NestedTotal(global_nt_syn_hist)
                  = SeqSum([j \in DOMAIN rows |-> CategoryEntries(rows[j])])

\* a category counted in two partitions, and a row without partition label scanned
C29_Witness ==
    /\ prog = "sp" /\ pc = "loop"
    /\ \E c \in DOMAIN global_nt_syn_hist :
          \E w \in DOMAIN global_nt_syn_hist[c] :
             /\ global_nt_syn_hist[c][w] >= 2
             /\ Cardinality({p \in DOMAIN neuropil_nt_syn_hist :
                                NtCount(neuropil_nt_syn_hist, p, c, w) > 0}) = 2
    /\ \E j \in DOMAIN Flatten(ProcessedBatches) :
          IsNull(Flatten(ProcessedBatches)[j].neuropil)

\* the same in summarize_data
C29_WitnessDirect ==
    /\ prog = "sd" /\ pc = "loop"
    /\ \E c \in DOMAIN global_nt_syn_hist :
          \E w \in DOMAIN global_nt_syn_hist[c] :
             Cardinality({p \in DOMAIN neuropil_nt_syn_hist :
                             NtCount(neuropil_nt_syn_hist, p, c, w) > 0}) = 2
    /\ \E j \in DOMAIN Flatten(ProcessedBatches) :
          IsNull(Flatten(ProcessedBatches)[j].neuropil)
----------------------------------------------------------------------------
(* A missing input and the dataset root: aggregate.py 92-99 *)

\* C30: when the input path does not exist, the only step the writer takes is
\* the one that raises, and it changes nothing under the dataset root: every
\* segment that was there keeps its name and its rows, nothing is removed and
\* nothing is written.
C30_MissingInputLeavesDataset ==
    [][(prog = "agg" /\ ~path_exists) =>
          /\ pc = "start" /\ pc' = "raised"
          /\ error' = Some("FileNotFoundError")
          /\ dataset' = dataset
          /\ removed' = {}
          /\ total_written' = total_written /\ file_index' = file_index]_vars

\* the writer stopped on a missing path with another run's segments still in place
C30_Witness ==
    /\ prog = "agg" /\ ~path_exists
    /\ pc = "raised" /\ error = Some("FileNotFoundError")
    /\ dataset = OtherDataset /\ removed = {}

============================================================================
